---- MODULE Spec2Model ----
(***************************************************************************)
(* EPUB package repair, TOC flattening and RTL mutation                    *)
(* (ebook_converter_bot/utils/epub.py) as a state machine over the files   *)
(* of the directory that holds the package.                                *)
(*                                                                         *)
(* A file is a record [exists, sealed, entries]: entries is the list of    *)
(* zip members in archive order, sealed says that the central directory    *)
(* has been written (an unsealed file is a partially written archive).     *)
(* A member is [filename, data, compress_type, date_time].                 *)
(***************************************************************************)
EXTENDS Integers, Sequences, FiniteSets, TLC

VARIABLES
  disk,      \* [input |-> file at input_file, tmp |-> file at tmp_path]
  clock,     \* wall clock, in ticks of the zip (DOS) time stamp
  last,      \* the last finished call: [op, before, rewrote, ret, again]
  pc,        \* position inside a stepwise _rewrite_epub_dedup
  job,       \* arguments of the stepwise rewrite: [book, infos, repl, idx]
  exc,       \* TRUE when the stepwise rewrite has an exception in flight
  tmpMade,   \* TRUE once NamedTemporaryFile has created the temp file
  seen,      \* what a concurrent reader has last read at input_file
  queue,     \* the conversion queue: request id -> ConversionRequestState
  files,     \* the paths under the download directory at which a file exists
  bok,       \* a run of bok_to_epub: its source, arguments and locals
  out,       \* the file at out_epub, the destination of bok_to_epub
  call       \* a call of a pure helper: [arg, res, done]

vars == <<disk, clock, last, pc, job, exc, tmpMade, seen, queue, files, bok, out, call>>

----------------------------------------------------------------------------
(* Bounds of the model *)

MaxClock == 1
MaxEntries == 3
MaxManifest == 3
MaxSpine == 3
MaxChildren == 3
MaxRequests == 2
MaxNow == 3
MaxOptionCalls == 2
MaxRows == 3
MaxToc == 4
MaxPoints == 3
MaxTocRows == 3

----------------------------------------------------------------------------
(* Archive member names.  A name is a sequence of path segments; a segment *)
(* is [stem, ext, cap]: cap says that the stem is spelled with a capital   *)
(* first letter, so str.lower() clears it.                                 *)

Seg(stem, ext, cap) == [stem |-> stem, ext |-> ext, cap |-> cap]

LowerSeg(s) == [s EXCEPT !.cap = FALSE]

LowerName(n) == [i \in 1..Len(n) |-> LowerSeg(n[i])]

MIMETYPE == <<Seg("mimetype", "", FALSE)>>

Last(s) == s[Len(s)]

Front(s) == SubSeq(s, 1, Len(s) - 1)

EndsWithOpf(n) == Last(n).ext = "opf"

EndsWithCss(n) == Last(n).ext = "css"

EndsWithTocNcx(n) == Last(n).ext = "ncx" /\ Last(n).stem = "toc" /\ ~Last(n).cap

EndsWithNavXhtml(n) == Last(n).ext = "xhtml" /\ Last(n).stem = "nav" /\ ~Last(n).cap

----------------------------------------------------------------------------
(* Member contents.  Bytes are described by what the parsers make of them: *)
(*   syntax    "xml" when etree.fromstring accepts them, else "bad"        *)
(*   decl      the bytes start with an XML declaration                     *)
(*   canon     the bytes are exactly lxml's serialisation of their tree    *)
(*   hasMS     the tree has a manifest and a spine element                 *)
(*   manifest, spine, ppd   children of manifest / spine, and the spine's  *)
(*             page-progression-direction attribute                        *)
(*   hasNavMap, navMap      the NCX navMap forest                          *)
(*   hasOl, ol              the first ordered list of the HTML nav         *)
(*   rtl       where a stylesheet carries "direction: rtl !important":     *)
(*             "near" (in its first 300 bytes), "far" (later), "none"      *)
(*   prefixed  how many times the rtl prefix line was put in front         *)
(*   tag       distinguishes otherwise equal payloads                      *)

Bytes(tag) ==
  [syntax |-> "bad", decl |-> FALSE, canon |-> FALSE, hasMS |-> FALSE,
   manifest |-> <<>>, spine |-> <<>>, ppd |-> "",
   hasNavMap |-> FALSE, navMap |-> <<>>, hasOl |-> FALSE, ol |-> <<>>,
   rtl |-> "none", prefixed |-> 0, tag |-> tag]

OpfBytes(decl, manifest, spine, ppd) ==
  [Bytes("opf") EXCEPT !.syntax = "xml", !.decl = decl, !.hasMS = TRUE,
                       !.manifest = manifest, !.spine = spine, !.ppd = ppd]

XmlNoSpineBytes == [Bytes("nospine") EXCEPT !.syntax = "xml", !.decl = TRUE]

NcxBytes(navMap) ==
  [Bytes("ncx") EXCEPT !.syntax = "xml", !.decl = TRUE, !.hasNavMap = TRUE,
                       !.navMap = navMap]

NavBytes(ol) ==
  [Bytes("nav") EXCEPT !.syntax = "xml", !.decl = TRUE, !.hasOl = TRUE, !.ol = ol]

CssBytes(rtl) == [Bytes("css") EXCEPT !.rtl = rtl]

\* etree.tostring(root, encoding="utf-8", xml_declaration=xml_declaration)
EtreeToString(data, xml_declaration) ==
  [data EXCEPT !.canon = TRUE, !.decl = xml_declaration]

----------------------------------------------------------------------------
(* The zip layer *)

Entry(name, data, ctype, time) ==
  [filename |-> name, data |-> data, compress_type |-> ctype, date_time |-> time]

NoFile == [exists |-> FALSE, sealed |-> FALSE, entries |-> <<>>]

ZipOf(entries) == [exists |-> TRUE, sealed |-> TRUE, entries |-> entries]

\* ZipFile.namelist() as a set
Namelist(infos) == {infos[i].filename : i \in 1..Len(infos)}

\* ZipFile.getinfo(name): the last member written under that name
GetInfo(infos, name) ==
  infos[CHOOSE i \in 1..Len(infos) :
          /\ infos[i].filename = name
          /\ \A j \in (i+1)..Len(infos) : infos[j].filename # name]

\* ZipFile.read(name)
Read(infos, name) == GetInfo(infos, name).data

\* the loop of _unique_infos from member i down; st is [seen, unique]
RECURSIVE UniqueRev(_, _, _)
UniqueRev(infos, i, st) ==
  IF i = 0 THEN st.unique
  ELSE UniqueRev(infos, i - 1,
                 IF infos[i].filename \in st.seen THEN st
                 ELSE [seen |-> st.seen \cup {infos[i].filename},
                       unique |-> <<infos[i]>> \o st.unique])

UniqueInfosKeepAll(infos) == infos

\* _unique_infos: one info per name, the last one, in order of last occurrence
UniqueInfos(infos) == UniqueRev(infos, Len(infos), [seen |-> {}, unique |-> <<>>])

NeedsCleanupAlways(infos, unique_infos) == TRUE

\* _needs_cleanup
NeedsCleanup(infos, unique_infos) ==
  IF Len(unique_infos) # Len(infos) THEN TRUE
  ELSE /\ MIMETYPE \in Namelist(infos)
       /\ GetInfo(infos, MIMETYPE).compress_type # "stored"

\* the member that out.writestr("mimetype", ..., compress_type=ZIP_STORED)
\* writes: a fresh ZipInfo, stamped with the current time
MimetypeMember(book, now) == Entry(MIMETYPE, Read(book, MIMETYPE), "stored", now)

MemberDeflated(book, info, repl) ==
  [info EXCEPT !.compress_type = "deflated",
               !.data = IF info.filename \in DOMAIN repl
                        THEN repl[info.filename]
                        ELSE Read(book, info.filename)]

\* the member that out.writestr(info, data) writes: the info's own metadata
Member(book, info, repl) ==
  [info EXCEPT !.data = IF info.filename \in DOMAIN repl
                        THEN repl[info.filename]
                        ELSE Read(book, info.filename)]

RewrittenEntriesInOrder(book, unique_infos, repl, now) ==
  [k \in 1..Len(unique_infos) |->
     IF unique_infos[k].filename = MIMETYPE THEN MimetypeMember(book, now)
     ELSE Member(book, unique_infos[k], repl)]

\* the members _rewrite_epub_dedup writes into the temp archive, in order
RewrittenEntries(book, unique_infos, repl, now) ==
  LET rest == SelectSeq(unique_infos, LAMBDA i : i.filename # MIMETYPE)
  IN  (IF \E k \in 1..Len(unique_infos) : unique_infos[k].filename = MIMETYPE
       THEN <<MimetypeMember(book, now)>> ELSE <<>>)
      \o [k \in 1..Len(rest) |-> Member(book, rest[k], repl)]

NoRepl == [n \in {} |-> Bytes("")]

----------------------------------------------------------------------------
(* The OPF document.  A manifest child is [tag, id, href], a spine child   *)
(* is [tag, idref]; an absent or empty attribute is "" (ids) or a href     *)
(* with present = FALSE.  A href is [present, path, frag].                 *)

Href(path, frag) == [present |-> TRUE, path |-> path, frag |-> frag]

NoHref == [present |-> FALSE, path |-> <<>>, frag |-> ""]

Item(id, href) == [tag |-> "item", id |-> id, href |-> href]

Itemref(idref) == [tag |-> "itemref", idref |-> idref]

\* page_id_re.fullmatch(id): the number N of page_<N>, or -1 without a match
PageNumber(id) ==
  CASE id = "page_1" -> 1
    [] id = "page_01" -> 1
    [] id = "page_2" -> 2
    [] id = "page_3" -> 3
    [] id = "page_4" -> 4
    [] OTHER -> -1

\* idref.startswith("page_")
StartsWithPage(id) == PageNumber(id) # -1 \/ id \in {"page_x"}

IsPrefix(p, s) == Len(p) <= Len(s) /\ SubSeq(s, 1, Len(p)) = p

\* _href_resolveds: the candidate archive names of a href, in order
HrefResolveds(opf_dir, href) ==
  IF opf_dir # <<>> THEN <<opf_dir \o href.path, href.path>>
  ELSE <<href.path>>

\* _href_exists
HrefExists(zip_names, opf_dir, href) ==
  LET resolveds == HrefResolveds(opf_dir, href)
  IN  \E k \in 1..Len(resolveds) : resolveds[k] \in zip_names

\* "/text/" in ("/" + r).lower(): a directory segment spelled text
InTextDir(r) == \E k \in 1..(Len(r) - 1) : r[k].stem = "text" /\ r[k].ext = ""

\* zip_lower_map.get(resolved.lower())
LowerCandidates(zip_names, resolved) ==
  {n \in zip_names : LowerName(n) = LowerName(resolved)}

\* the rel of _fix_href_case: the archive name actual, relative to opf_dir
\* when it lies below it
RelTo(opf_dir, actual) ==
  IF opf_dir # <<>> /\ IsPrefix(opf_dir, actual) /\ Len(actual) > Len(opf_dir)
  THEN SubSeq(actual, Len(opf_dir) + 1, Len(actual))
  ELSE actual

\* the loop of _fix_href_case from candidate k on: the first candidate with
\* exactly one archive name of its lowercase spelling gives the new href
RECURSIVE FixHrefFrom(_, _, _, _, _)
FixHrefFrom(zip_names, opf_dir, href, resolveds, k) ==
  IF k > Len(resolveds) THEN href
  ELSE IF Cardinality(LowerCandidates(zip_names, resolveds[k])) # 1
  THEN FixHrefFrom(zip_names, opf_dir, href, resolveds, k + 1)
  ELSE [href EXCEPT !.path =
          RelTo(opf_dir, CHOOSE n \in LowerCandidates(zip_names, resolveds[k]) : TRUE)]

\* _fix_href_case
FixHrefCase(zip_names, opf_dir, href) ==
  IF HrefExists(zip_names, opf_dir, href) THEN href
  ELSE FixHrefFrom(zip_names, opf_dir, href, HrefResolveds(opf_dir, href), 1)

\* _reorder_pages: the page_<N> children take, sorted by N, the positions the
\* page_<N> children held; every other child keeps its position
ReorderPagesKeepOrder(children, tag_name, attr) == children

ReorderPages(children, tag_name, attr) ==
  LET IsTarget(i) == children[i].tag = tag_name /\ PageNumber(children[i][attr]) # -1
      targets == {i \in 1..Len(children) : IsTarget(i)}
      Num(i) == PageNumber(children[i][attr])
      \* position of target i in the stable sort by number
      Rank(i) == Cardinality({j \in targets : Num(j) < Num(i) \/ (Num(j) = Num(i) /\ j < i)}) + 1
      \* ordinal of position i among the target positions
      Ord(i) == Cardinality({j \in targets : j <= i})
  IN  [i \in 1..Len(children) |->
         IF i \in targets
         THEN children[CHOOSE j \in targets : Rank(j) = Ord(i)]
         ELSE children[i]]

\* the items of a working manifest that were not removed
Alive(items, removed) ==
  LET idx == {i \in 1..Len(items) : i \notin removed}
      Nth(k) == CHOOSE i \in idx : Cardinality({j \in idx : j <= i}) = k
  IN  [k \in 1..Cardinality(idx) |-> items[Nth(k)]]

ItemOk(zip_names, opf_dir, item) ==
  item.href.present /\ HrefExists(zip_names, opf_dir, item.href)

\* the working manifest with the href of child i case-fixed
FixedItems(items, i, zip_names, opf_dir) ==
  IF items[i].href.present
  THEN [items EXCEPT ![i].href = FixHrefCase(zip_names, opf_dir, items[i].href)]
  ELSE items

\* keep, of the earlier item at prev and the current item at i of one id
KeepOfLater(items, prev, i, zip_names, opf_dir) == i

KeepOf(items, prev, i, zip_names, opf_dir) ==
  IF ItemOk(zip_names, opf_dir, items[prev]) /\ ~ItemOk(zip_names, opf_dir, items[i])
  THEN prev ELSE i

\* manifest.remove(drop); manifest_by_id[item_id] = keep
RemoveDrop(items, removed, by_id, prev, i, keep) ==
  [items |-> items,
   removed |-> removed \cup {IF keep = prev THEN i ELSE prev},
   by_id |-> (items[i].id :> keep) @@ by_id]

\* child i, its href fixed, against manifest_by_id, which maps an id to the
\* position of its item
Register(items, removed, by_id, i, zip_names, opf_dir) ==
  IF items[i].id \notin DOMAIN by_id
  THEN [items |-> items, removed |-> removed, by_id |-> (items[i].id :> i) @@ by_id]
  ELSE RemoveDrop(items, removed, by_id, by_id[items[i].id], i,
                  KeepOf(items, by_id[items[i].id], i, zip_names, opf_dir))

\* one round of the first loop of _normalize_manifest, on child i; d is
\* [items, removed, by_id]
DedupStep(d, i, zip_names, opf_dir) ==
  IF d.items[i].tag # "item" \/ d.items[i].id = "" THEN d
  ELSE Register(FixedItems(d.items, i, zip_names, opf_dir), d.removed, d.by_id, i,
                zip_names, opf_dir)

\* the first loop of _normalize_manifest from child i on
RECURSIVE DedupItems(_, _, _, _)
DedupItems(d, i, zip_names, opf_dir) ==
  IF i > Len(d.items) THEN d
  ELSE DedupItems(DedupStep(d, i, zip_names, opf_dir), i + 1, zip_names, opf_dir)

\* second loop of _normalize_manifest: the ids whose item is dropped because
\* its href resolves nowhere and points into a text directory
DropsKeepAll(items, by_id, zip_names, opf_dir) == {}

Drops(items, by_id, zip_names, opf_dir) ==
  {id \in DOMAIN by_id :
     LET item == items[by_id[id]]
         resolveds == HrefResolveds(opf_dir, item.href)
     IN  /\ item.href.present
         /\ ~HrefExists(zip_names, opf_dir, item.href)
         /\ \E k \in 1..Len(resolveds) : InTextDir(resolveds[k])}

\* the end of _normalize_manifest: the dropped items leave, the pages are
\* reordered
ManifestAfter(d, drops) ==
  [children |-> ReorderPages(Alive(d.items, d.removed \cup {d.by_id[id] : id \in drops}),
                             "item", "id"),
   by_id |-> [id \in DOMAIN d.by_id \ drops |-> d.items[d.by_id[id]]]]

\* _normalize_manifest after its first loop
ManifestFrom(d, zip_names, opf_dir) ==
  ManifestAfter(d, Drops(d.items, d.by_id, zip_names, opf_dir))

\* _normalize_manifest: [children |-> the manifest afterwards,
\*                       by_id |-> manifest_by_id, id to item]
NormalizeManifest(manifest, zip_names, opf_dir) ==
  ManifestFrom(DedupItems([items |-> manifest, removed |-> {}, by_id |-> [x \in {} |-> 0]],
                          1, zip_names, opf_dir),
               zip_names, opf_dir)

\* one round of the loop of _normalize_spine, on child i; st is
\* [removed, seen_idref]
SpineStep(spine, i, st, ids) ==
  IF spine[i].tag # "itemref" THEN st
  ELSE IF spine[i].idref = "" \/ spine[i].idref \in st.seen_idref \/ spine[i].idref \notin ids
  THEN [st EXCEPT !.removed = @ \cup {i}]
  ELSE [st EXCEPT !.seen_idref = @ \cup {spine[i].idref}]

\* the loop of _normalize_spine from child i on: [children, seen_idref]
RECURSIVE SpineFrom(_, _, _, _)
SpineFrom(spine, i, st, ids) ==
  IF i > Len(spine)
  THEN [children |-> Alive(spine, st.removed), seen_idref |-> st.seen_idref]
  ELSE SpineFrom(spine, i + 1, SpineStep(spine, i, st, ids), ids)

NormalizeSpineKeepDangling(spine, by_id) ==
  SpineFrom(spine, 1, [removed |-> {}, seen_idref |-> {}],
            {spine[i].idref : i \in 1..Len(spine)})

\* _normalize_spine
NormalizeSpine(spine, by_id) ==
  SpineFrom(spine, 1, [removed |-> {}, seen_idref |-> {}], DOMAIN by_id)

FRONT_IDS == <<"titlepage", "intro", "book_info">>

InsertAt(s, idx, e) == SubSeq(s, 1, idx) \o <<e>> \o SubSeq(s, idx + 1, Len(s))

\* one round of the loop of _prepend_front_matter, on front id k; st is
\* [spine, idx, seen_idref] with idx the running first_page_idx
FrontStep(st, k, by_id, zip_names, opf_dir) ==
  IF FRONT_IDS[k] \in st.seen_idref \/ FRONT_IDS[k] \notin DOMAIN by_id THEN st
  ELSE IF ItemOk(zip_names, opf_dir, by_id[FRONT_IDS[k]])
  THEN [spine |-> InsertAt(st.spine, st.idx, Itemref(FRONT_IDS[k])),
        idx |-> st.idx + 1,
        seen_idref |-> st.seen_idref \cup {FRONT_IDS[k]}]
  ELSE st

\* the loop of _prepend_front_matter from front id k on
RECURSIVE FrontFrom(_, _, _, _, _)
FrontFrom(st, k, by_id, zip_names, opf_dir) ==
  IF k > Len(FRONT_IDS) THEN st.spine
  ELSE FrontFrom(FrontStep(st, k, by_id, zip_names, opf_dir), k + 1, by_id, zip_names, opf_dir)

\* first_page_idx, 0-based: the first itemref whose idref starts with page_
FirstPageIdx(spine) ==
  LET pages == {i \in 1..Len(spine) :
                  spine[i].tag = "itemref" /\ StartsWithPage(spine[i].idref)}
  IN  IF pages = {} THEN Len(spine)
      ELSE (CHOOSE i \in pages : \A j \in pages : i <= j) - 1

PrependFrontMatterAtStart(spine, by_id, seen_idref, zip_names, opf_dir) ==
  FrontFrom([spine |-> spine, idx |-> 0, seen_idref |-> seen_idref],
            1, by_id, zip_names, opf_dir)

\* _prepend_front_matter
PrependFrontMatter(spine, by_id, seen_idref, zip_names, opf_dir) ==
  FrontFrom([spine |-> spine, idx |-> FirstPageIdx(spine), seen_idref |-> seen_idref],
            1, by_id, zip_names, opf_dir)

PickFirstValidOpf(infos) ==
  LET valid == {i \in 1..Len(infos) :
                  /\ EndsWithOpf(infos[i].filename)
                  /\ infos[i].data.syntax = "xml"
                  /\ infos[i].data.hasMS}
  IN  IF valid = {} THEN 0 ELSE CHOOSE i \in valid : \A j \in valid : i <= j

\* _pick_valid_opf: the position in the archive of the last member named
\* *.opf that parses and has a manifest and a spine; 0 when there is none
PickValidOpf(infos) ==
  LET valid == {i \in 1..Len(infos) :
                  /\ EndsWithOpf(infos[i].filename)
                  /\ infos[i].data.syntax = "xml"
                  /\ infos[i].data.hasMS}
  IN  IF valid = {} THEN 0 ELSE CHOOSE i \in valid : \A j \in valid : j <= i

\* the body of fix_content_opf_problems between picking the OPF and the
\* rewrite: the serialised repaired OPF
RepairedOpf(infos, picked) ==
  LET opf_bytes == infos[picked].data
      opf_dir == Front(infos[picked].filename)
      zip_names == Namelist(infos)
      m == NormalizeManifest(opf_bytes.manifest, zip_names, opf_dir)
      s == NormalizeSpine(opf_bytes.spine, m.by_id)
      withFront == PrependFrontMatter(s.children, m.by_id, s.seen_idref, zip_names, opf_dir)
      spine == ReorderPages(withFront, "itemref", "idref")
  IN  EtreeToString([opf_bytes EXCEPT !.manifest = m.children, !.spine = spine],
                    opf_bytes.decl)

----------------------------------------------------------------------------
(* TOC flattening.  An NCX navPoint is [id, playOrder, label, kids]; an id *)
(* is [pfx, n] (num_<n> after flattening).  An HTML list item is [a, sub]: *)
(* its link and the ordered lists nested directly inside it.               *)

NavPoint(pfx, n, playOrder, label, kids) ==
  [id |-> [pfx |-> pfx, n |-> n], playOrder |-> playOrder, label |-> label, kids |-> kids]

Li(a, sub) == [a |-> a, sub |-> sub]

WalkRoots(forest) == forest

\* walk in _flatten_ncx_toc: the navPoints of a forest in depth-first pre-order
RECURSIVE Walk(_)
Walk(forest) ==
  IF forest = <<>> THEN <<>>
  ELSE <<Head(forest)>> \o Walk(Head(forest).kids) \o Walk(Tail(forest))

\* _flatten_ncx_toc
FlattenNcxToc(nav_map) ==
  LET points == Walk(nav_map)
  IN  [k \in 1..Len(points) |-> NavPoint("num", k, k, points[k].label, <<>>)]

\* toc_ol.xpath(".//li[./ol]") is not empty
HasLiWithOl(ol) == \E i \in 1..Len(ol) : ol[i].sub # <<>>

MaxOf(S) == CHOOSE x \in S : \A y \in S : y <= x

\* one round of the loop of _flatten_html_nav: the last list item in document
\* order that holds a list gets the items of its first list lifted behind it
RECURSIVE LiftLast(_)
LiftLast(ol) ==
  LET i == MaxOf({x \in 1..Len(ol) : ol[x].sub # <<>>})
      li == ol[i]
      deep == {k \in 1..Len(li.sub) : HasLiWithOl(li.sub[k])}
  IN  IF deep # {}
      THEN [ol EXCEPT ![i].sub[MaxOf(deep)] = LiftLast(li.sub[MaxOf(deep)])]
      ELSE SubSeq(ol, 1, i - 1) \o <<[li EXCEPT !.sub = Tail(li.sub)]>>
           \o li.sub[1] \o SubSeq(ol, i + 1, Len(ol))

RECURSIVE LiftAll(_)
LiftAll(ol) == IF HasLiWithOl(ol) THEN LiftAll(LiftLast(ol)) ELSE ol

\* _flatten_html_nav: the bytes are returned as they are unless a list was lifted
FlattenHtmlNav(html_nav_file) ==
  IF ~html_nav_file.hasOl \/ ~HasLiWithOl(html_nav_file.ol) THEN html_nav_file
  ELSE EtreeToString([html_nav_file EXCEPT !.ol = LiftAll(html_nav_file.ol)], FALSE)

MinOf(S) == CHOOSE x \in S : \A y \in S : x <= y

\* next((i for i in unique_infos if i.filename.endswith("toc.ncx")), None):
\* its position, or 0
TocInfo(unique_infos) ==
  LET hits == {i \in 1..Len(unique_infos) : EndsWithTocNcx(unique_infos[i].filename)}
  IN  IF hits = {} THEN 0 ELSE MinOf(hits)

\* next((i for i in unique_infos if i.filename.endswith("nav.xhtml")), None)
NavInfo(unique_infos) ==
  LET hits == {i \in 1..Len(unique_infos) : EndsWithNavXhtml(unique_infos[i].filename)}
  IN  IF hits = {} THEN 0 ELSE MinOf(hits)

\* the toc.ncx half of _flatten_toc_replacements
NcxReplacement(book, unique_infos) ==
  LET t == TocInfo(unique_infos)
  IN  IF t = 0 THEN NoRepl
      ELSE LET name == unique_infos[t].filename
               old == Read(book, name)
               new == EtreeToString([old EXCEPT !.navMap = FlattenNcxToc(old.navMap)], old.decl)
           IN  IF old.syntax = "xml" /\ old.hasNavMap /\ new # old
               THEN (name :> new) ELSE NoRepl

\* the nav.xhtml half of _flatten_toc_replacements
NavReplacement(book, unique_infos) ==
  LET n == NavInfo(unique_infos)
  IN  IF n = 0 THEN NoRepl
      ELSE LET name == unique_infos[n].filename
               old == Read(book, name)
               new == FlattenHtmlNav(old)
           IN  IF new # old THEN (name :> new) ELSE NoRepl

\* _flatten_toc_replacements
FlattenTocReplacements(book, unique_infos) ==
  NavReplacement(book, unique_infos) @@ NcxReplacement(book, unique_infos)

----------------------------------------------------------------------------
(* RTL mutation *)

HasRtlDirectiveNever(css) == FALSE

\* b"direction: rtl !important" in css[:300].lower()
HasRtlDirective(css) == css.prefixed > 0 \/ css.rtl = "near"

\* rtl_prefix + css
RtlPrefixed(css) == [css EXCEPT !.prefixed = @ + 1]

\* the stylesheet replacements of set_epub_to_rtl
CssReplacements(book, unique_infos) ==
  LET names == {unique_infos[i].filename : i \in 1..Len(unique_infos)}
      todo == {n \in names : EndsWithCss(n) /\ ~HasRtlDirective(Read(book, n))}
  IN  [n \in todo |-> RtlPrefixed(Read(book, n))]

----------------------------------------------------------------------------
(* The three operations as whole calls on the file at input_file *)

Infolist == disk.input.entries

Done(op, rewrote, ret) ==
  [op |-> op, before |-> Infolist, rewrote |-> rewrote, ret |-> ret,
   again |-> (last.op = op)]

\* the parts of the program the EPUB operations do not touch
Elsewhere == UNCHANGED <<queue, files, bok, out, call>>

Idle == /\ pc = "idle"
        /\ UNCHANGED <<pc, job, exc, tmpMade, seen>>
        /\ Elsewhere

\* _rewrite_epub_dedup run to its normal end: the temp archive replaces the file
Rewritten(book, unique_infos, repl) ==
  disk' = [disk EXCEPT !.input = ZipOf(RewrittenEntries(book, unique_infos, repl, clock))]

\* fix_content_opf_problems(input_file)
FixContentOpfProblems ==
  /\ Idle
  /\ LET infos == Infolist
         picked == PickValidOpf(infos)
     IN  IF picked = 0
         THEN /\ UNCHANGED disk
              /\ last' = Done("fix", FALSE, FALSE)
         ELSE /\ Rewritten(infos, UniqueInfos(infos),
                           (infos[picked].filename :> RepairedOpf(infos, picked)))
              /\ last' = Done("fix", TRUE, FALSE)
  /\ UNCHANGED clock

\* flatten_toc(input_file)
FlattenToc ==
  /\ Idle
  /\ LET infos == Infolist
         unique_infos == UniqueInfos(infos)
         repl == FlattenTocReplacements(infos, unique_infos)
     IN  IF /\ TocInfo(unique_infos) = 0
            /\ NavInfo(unique_infos) = 0
         THEN /\ UNCHANGED disk
              /\ last' = Done("flatten", FALSE, FALSE)
         ELSE IF DOMAIN repl = {} /\ ~NeedsCleanup(infos, unique_infos)
         THEN /\ UNCHANGED disk
              /\ last' = Done("flatten", FALSE, FALSE)
         ELSE /\ Rewritten(infos, unique_infos, repl)
              /\ last' = Done("flatten", TRUE, FALSE)
  /\ UNCHANGED clock

\* set_epub_to_rtl(input_file); last.ret is the returned bool
SetEpubToRtl ==
  /\ Idle
  /\ LET infos == Infolist
         picked == PickValidOpf(infos)
         unique_infos == UniqueInfos(infos)
         opf_bytes == infos[picked].data
         css == CssReplacements(infos, unique_infos)
         changed == opf_bytes.ppd # "rtl" \/ DOMAIN css # {}
         opf == IF changed
                THEN EtreeToString([opf_bytes EXCEPT !.ppd = "rtl"], opf_bytes.decl)
                ELSE opf_bytes
     IN  IF picked = 0
         THEN /\ UNCHANGED disk
              /\ last' = Done("rtl", FALSE, FALSE)
         ELSE IF ~changed /\ ~NeedsCleanup(infos, unique_infos)
         THEN /\ UNCHANGED disk
              /\ last' = Done("rtl", FALSE, FALSE)
         ELSE /\ Rewritten(infos, unique_infos, (infos[picked].filename :> opf) @@ css)
              /\ last' = Done("rtl", TRUE, TRUE)
  /\ UNCHANGED clock

\* time passes between calls
Tick ==
  /\ Idle
  /\ clock < MaxClock
  /\ clock' = clock + 1
  /\ UNCHANGED <<disk, last>>

----------------------------------------------------------------------------
(* Packages the operations are applied to *)

OEBPS == Seg("oebps", "", TRUE)

OpfName == <<OEBPS, Seg("content", "opf", FALSE)>>

CssName == <<OEBPS, Seg("main", "css", FALSE)>>

TocName == <<OEBPS, Seg("toc", "ncx", FALSE)>>

NavName == <<OEBPS, Seg("nav", "xhtml", FALSE)>>

IntroName == <<OEBPS, Seg("text", "", TRUE), Seg("intro", "xhtml", FALSE)>>

SmallOpf ==
  OpfBytes(TRUE, <<Item("intro", Href(<<Seg("text", "", TRUE), Seg("intro", "xhtml", FALSE)>>, ""))>>,
           <<Itemref("intro")>>, "")

OtherOpfName == <<Seg("other", "opf", FALSE)>>

\* a second package document, at the archive root, that differs from SmallOpf
OtherOpf ==
  OpfBytes(FALSE, <<Item("intro", Href(IntroName, ""))>>, <<>>, "ltr")

NestedNcx ==
  NcxBytes(<<NavPoint("p", 1, 1, "One", <<NavPoint("p", 2, 2, "One.A", <<>>)>>),
             NavPoint("p", 3, 3, "Two", <<>>)>>)

NestedNav ==
  NavBytes(<<Li("One", <<(<<Li("One.A", <<>>)>>)>>), Li("Two", <<>>)>>)

\* the members a package is assembled from
Members ==
  { Entry(MIMETYPE, Bytes("epub+zip"), "stored", 0),
    Entry(MIMETYPE, Bytes("epub+zip"), "deflated", 0),
    Entry(OpfName, SmallOpf, "deflated", 0),
    Entry(OpfName, Bytes("<not xml"), "deflated", 0),
    Entry(OpfName, XmlNoSpineBytes, "deflated", 0),
    Entry(OtherOpfName, OtherOpf, "deflated", 0),
    Entry(CssName, CssBytes("none"), "deflated", 0),
    Entry(CssName, CssBytes("far"), "stored", 0),
    Entry(TocName, NestedNcx, "deflated", 0),
    Entry(NavName, NestedNav, "deflated", 0),
    Entry(IntroName, Bytes("<html/>"), "deflated", 0) }

SeqsUpTo(S, n) == UNION {[1..k -> S] : k \in 0..n}

Packages == SeqsUpTo(Members, MaxEntries)

NoCall == [op |-> "none", before |-> <<>>, rewrote |-> FALSE, ret |-> FALSE, again |-> FALSE]

NoJob == [book |-> <<>>, infos |-> <<>>, repl |-> NoRepl, idx |-> 0]

\* an empty queue, no downloaded file, no synthesis and no helper call
NoQueue == [id \in {} |-> 0]

NoBok == [pc |-> "none"]

NoPure == [arg |-> <<>>, res |-> <<>>, done |-> FALSE]

InitElsewhere ==
  /\ queue = NoQueue
  /\ files = {}
  /\ bok = NoBok
  /\ out = NoFile
  /\ call = NoPure

InitIdle ==
  /\ InitElsewhere
  /\ clock = 0
  /\ last = NoCall
  /\ pc = "idle"
  /\ job = NoJob
  /\ exc = FALSE
  /\ tmpMade = FALSE
  /\ seen = NoFile

Init ==
  /\ disk \in {[input |-> ZipOf(p), tmp |-> NoFile] : p \in Packages}
  /\ InitIdle

Next == FixContentOpfProblems \/ FlattenToc \/ SetEpubToRtl \/ Tick

Spec == Init /\ [][Next]_vars

----------------------------------------------------------------------------
(* Packages with one OPF at OEBPS/content.opf whose manifest and spine vary *)

TextDir == Seg("text", "", TRUE)

TextFile(stem) == <<OEBPS, TextDir, Seg(stem, "xhtml", FALSE)>>

TextHref(stem) == Href(<<TextDir, Seg(stem, "xhtml", FALSE)>>, "")

BookFiles ==
  <<Entry(TextFile("titlepage"), Bytes("<html/>"), "deflated", 0),
    Entry(TextFile("intro"), Bytes("<html/>"), "deflated", 0),
    Entry(TextFile("book_info"), Bytes("<html/>"), "deflated", 0),
    Entry(TextFile("page_1"), Bytes("<html/>"), "deflated", 0),
    Entry(TextFile("page_2"), Bytes("<html/>"), "deflated", 0),
    Entry(TextFile("page_x"), Bytes("<html/>"), "deflated", 0)>>

\* the manifest items and spine idrefs the OPFs are assembled from, by family:
\* front matter before pages, front matter and page order, duplicate ids and
\* dangling references, items without id or href
FrontFamily ==
  <<{ Item("titlepage", TextHref("titlepage")),
      Item("intro", TextHref("intro")),
      Item("page_1", TextHref("page_1")),
      Item("page_x", TextHref("page_x")) },
    { Itemref("intro"), Itemref("page_1"), Itemref("page_x") }>>

OrderFamily ==
  <<{ Item("book_info", TextHref("book_info")),
      Item("titlepage", TextHref("titlepage")),
      Item("page_2", Href(TextFile("page_2"), "")),
      Item("page_1", TextHref("page_1")) },
    { Itemref("page_2"), Itemref("page_1"), Itemref("book_info") }>>

DedupFamily ==
  <<{ Item("page_1", TextHref("page_1")),
      Item("page_1", Href(<<TextDir, Seg("page_1", "xhtml", TRUE)>>, "")),
      Item("page_4", TextHref("page_4")),
      Item("img", Href(<<Seg("images", "", TRUE), Seg("cover", "png", FALSE)>>, "")) },
    { Itemref("page_1"), Itemref("page_4"), Itemref("ghost") }>>

LooseFamily ==
  <<{ Item("", TextHref("page_9")),
      Item("notes", NoHref),
      Item("titlepage", TextHref("cover")),
      Item("titlepage", TextHref("titlepage")) },
    { Itemref("notes"), Itemref("titlepage"), Itemref("") }>>

\* items that share one id: two that resolve, two that point at missing
\* images, one that points at a missing text document
SharedFamily ==
  <<{ Item("doc", TextHref("intro")),
      Item("doc", Href(<<TextDir, Seg("intro", "xhtml", FALSE)>>, "top")),
      Item("doc", Href(<<Seg("images", "", TRUE), Seg("cover", "png", FALSE)>>, "")),
      Item("doc", Href(<<Seg("images", "", TRUE), Seg("back", "png", FALSE)>>, "")),
      Item("doc", TextHref("cover")) },
    { Itemref("doc") }>>

Families == {FrontFamily, OrderFamily, DedupFamily, LooseFamily, SharedFamily}

\* the front-matter scenario: a spine that lists only page_2, page_1, page_1
ScenarioManifest ==
  <<Item("titlepage", TextHref("titlepage")), Item("intro", TextHref("intro")),
    Item("page_1", TextHref("page_1")), Item("page_2", TextHref("page_2"))>>

ScenarioSpine == <<Itemref("page_2"), Itemref("page_1"), Itemref("page_1")>>

OpfInputs ==
  UNION {SeqsUpTo(f[1], MaxManifest) \X SeqsUpTo(f[2], MaxSpine) : f \in Families}
  \cup {<<ScenarioManifest, ScenarioSpine>>}

OpfPackage(manifest, spine) ==
  <<Entry(OpfName, OpfBytes(TRUE, manifest, spine, ""), "deflated", 0)>> \o BookFiles

InitOpf ==
  /\ disk \in {[input |-> ZipOf(OpfPackage(x[1], x[2])), tmp |-> NoFile] : x \in OpfInputs}
  /\ InitIdle

NextOpf == FixContentOpfProblems

SpecOpf == InitOpf /\ [][NextOpf]_vars

----------------------------------------------------------------------------
(* Properties of whole calls *)

NamesUnique(infos) == \A i, j \in 1..Len(infos) : i # j => infos[i].filename # infos[j].filename

MimetypeCount(infos) == Cardinality({i \in 1..Len(infos) : infos[i].filename = MIMETYPE})

\* the call before the last one was a call of the same operation
Repeated(op) == last.op = op /\ last.again

\* the last call was a repair that found an authoritative OPF
AfterFix == last.op = "fix" /\ last.rewrote

OpfBefore == last.before[PickValidOpf(last.before)].data

OpfNameBefore == last.before[PickValidOpf(last.before)].filename

OpfAfter == Read(Infolist, OpfNameBefore)

ZipNames == Namelist(Infolist)

Idrefs(spine) == [k \in 1..Len(spine) |-> spine[k].idref]

\* C1: a second fix_content_opf_problems right after a first one leaves the
\* archive byte-identical: same members in the same order with the same
\* names, contents, compression modes and time stamps
C1_RepairTwiceIdentical == Repeated("fix") => Infolist = last.before

\* C2: on an archive with a valid OPF, a set_epub_to_rtl call that directly
\* follows another one returns False and leaves the archive byte-identical
C2_RtlTwice ==
  (Repeated("rtl") /\ PickValidOpf(last.before) # 0)
    => (~last.ret /\ Infolist = last.before)

\* a second set_epub_to_rtl has returned on a package whose stylesheet the
\* first call prefixed and whose spine it turned to rtl
C2_Witness ==
  /\ Repeated("rtl")
  /\ PickValidOpf(last.before) # 0
  /\ OpfBefore.ppd = "rtl"
  /\ \E i \in 1..Len(Infolist) : Infolist[i].data.prefixed > 0
  /\ clock > 0

\* C3: the archive after a second flatten_toc is byte-identical to the
\* archive after the first one
C3_FlattenTwice == Repeated("flatten") => Infolist = last.before

\* a second flatten_toc has returned, later than the first, on a package
\* whose toc.ncx and nav.xhtml the first call flattened and de-duplicated
C3_Witness ==
  /\ Repeated("flatten")
  /\ clock > 0
  /\ MIMETYPE \in ZipNames
  /\ \E i \in 1..Len(Infolist) :
       /\ EndsWithTocNcx(Infolist[i].filename)
       /\ Infolist[i].data.canon
       /\ Infolist[i].data.navMap # <<>>
       /\ \A k \in 1..Len(Infolist[i].data.navMap) : Infolist[i].data.navMap[k].id.pfx = "num"
  /\ \E i \in 1..Len(Infolist) :
       /\ EndsWithNavXhtml(Infolist[i].filename)
       /\ Infolist[i].data.canon

\* C4: after a repair of an archive with a valid OPF every spine itemref
\* names the id of an item that is in the manifest, and no two manifest items
\* have the same id (an absent or empty id attribute is no id)
C4_SpineResolvesIdsUnique ==
  AfterFix =>
    LET m == OpfAfter.manifest
        s == OpfAfter.spine
    IN  /\ \A k \in 1..Len(s) :
             s[k].tag = "itemref" =>
               /\ s[k].idref # ""
               /\ \E i \in 1..Len(m) : m[i].tag = "item" /\ m[i].id = s[k].idref
        /\ \A i, j \in 1..Len(m) : (i # j /\ m[i].id # "") => m[i].id # m[j].id

\* a repair has returned whose OPF had two items of one id and a spine
\* itemref that named no item, or named one twice
C4_Witness ==
  /\ AfterFix
  /\ \E i, j \in 1..Len(OpfBefore.manifest) :
       i # j /\ OpfBefore.manifest[i].id # "" /\ OpfBefore.manifest[i].id = OpfBefore.manifest[j].id
  /\ \E k \in 1..Len(OpfBefore.spine) :
       \A i \in 1..Len(OpfBefore.manifest) : OpfBefore.manifest[i].id # OpfBefore.spine[k].idref
  /\ Len(OpfAfter.spine) > 0

Unresolved(item) ==
  ~(item.href.present /\ HrefExists(ZipNames, Front(OpfNameBefore), item.href))

PointsIntoText(item) ==
  LET resolveds == HrefResolveds(Front(OpfNameBefore), item.href)
  IN  \E k \in 1..Len(resolveds) : InTextDir(resolveds[k])

\* C5 as stated: after a repair every manifest item that is left has an href
\* that resolves to a member of the archive
C5_EveryHrefResolves ==
  AfterFix => \A i \in 1..Len(OpfAfter.manifest) : ~Unresolved(OpfAfter.manifest[i])

\* C5 as amended: after a repair every manifest item with an id that is left
\* has no href, or an href that resolves to a member of the archive, or an
\* unresolvable href none of whose candidate paths lies in a text directory
C5_TextHrefsResolve ==
  AfterFix =>
    \A i \in 1..Len(OpfAfter.manifest) :
      LET item == OpfAfter.manifest[i]
      IN  (item.id # "" /\ item.href.present /\ Unresolved(item)) => ~PointsIntoText(item)

\* a repair has returned that dropped an item pointing at a missing text
\* document and kept an item pointing at a missing image
C5_Witness ==
  /\ AfterFix
  /\ \E i \in 1..Len(OpfBefore.manifest) :
       /\ OpfBefore.manifest[i].id = "page_4"
       /\ \A j \in 1..Len(OpfAfter.manifest) : OpfAfter.manifest[j].id # "page_4"
  /\ \E j \in 1..Len(OpfAfter.manifest) :
       /\ OpfAfter.manifest[j].href.present
       /\ Unresolved(OpfAfter.manifest[j])

Hygiene(infos) ==
  /\ NamesUnique(infos)
  /\ MIMETYPE \in Namelist(infos) =>
       (infos[1].filename = MIMETYPE /\ infos[1].compress_type = "stored")

\* C6 as stated: after any rewrite the archive has the mimetype member
\* exactly once, stored uncompressed, and no two members share a name
C6_MimetypeOnceAlways ==
  last.rewrote =>
    /\ MimetypeCount(Infolist) = 1
    /\ GetInfo(Infolist, MIMETYPE).compress_type = "stored"
    /\ NamesUnique(Infolist)

\* C6 as amended: after any rewrite no two members share a name; when the
\* archive had a mimetype member before, it has exactly one afterwards, stored
\* uncompressed; when it had none, none is created
C6_MimetypeOnceIfPresent ==
  last.rewrote =>
    /\ NamesUnique(Infolist)
    /\ IF MIMETYPE \in Namelist(last.before)
       THEN /\ MimetypeCount(Infolist) = 1
            /\ GetInfo(Infolist, MIMETYPE).compress_type = "stored"
       ELSE MimetypeCount(Infolist) = 0

\* a rewrite has happened on an archive with a duplicated name and a
\* compressed mimetype member
C6_Witness ==
  /\ last.rewrote
  /\ ~NamesUnique(last.before)
  /\ MIMETYPE \in Namelist(last.before)
  /\ GetInfo(last.before, MIMETYPE).compress_type = "deflated"

\* C7 as stated: whenever one of the three operations has returned, on any
\* path, the member names are unique and a mimetype member, if present, is
\* stored uncompressed and first
C7_HygieneOnEveryReturn == last.op # "none" => Hygiene(Infolist)

\* C7 as amended: whenever one of the three operations has returned after
\* rewriting the archive, the member names are unique and a mimetype member, if
\* present, is stored uncompressed and first; when it has returned without
\* rewriting, the archive is exactly as it was before the call
C7_HygieneOrUntouched ==
  last.op # "none" =>
    IF last.rewrote THEN Hygiene(Infolist) ELSE Infolist = last.before

\* an operation has returned without rewriting an archive that has
\* duplicate names or a mimetype member out of place
C7_Witness == last.op # "none" /\ ~last.rewrote /\ ~Hygiene(Infolist)

\* the front ids that are in the manifest with a resolving href and are not
\* in the spine, in the order of FRONT_IDS
MissingFront ==
  LET miss(k) ==
        /\ \E i \in 1..Len(OpfBefore.manifest) :
             /\ OpfBefore.manifest[i].tag = "item"
             /\ OpfBefore.manifest[i].id = FRONT_IDS[k]
             /\ ~Unresolved(OpfBefore.manifest[i])
        /\ \A j \in 1..Len(OpfBefore.spine) : OpfBefore.spine[j].idref # FRONT_IDS[k]
  IN  SelectSeq(FRONT_IDS, LAMBDA f : \E k \in 1..Len(FRONT_IDS) : FRONT_IDS[k] = f /\ miss(k))

\* the idrefs of the n spine children right before position p
Before(spine, p, n) ==
  IF p - n < 1 THEN <<>> ELSE Idrefs(SubSeq(spine, p - n, p - 1))

\* the position of the first itemref of a numbered page (page_<N>), or 0
FirstNumberedPage(spine) ==
  LET hits == {i \in 1..Len(spine) : spine[i].tag = "itemref" /\ PageNumber(spine[i].idref) # -1}
  IN  IF hits = {} THEN 0 ELSE MinOf(hits)

\* the position of the first itemref whose idref starts with page_, or 0
FirstPagePrefix(spine) ==
  LET hits == {i \in 1..Len(spine) : spine[i].tag = "itemref" /\ StartsWithPage(spine[i].idref)}
  IN  IF hits = {} THEN 0 ELSE MinOf(hits)

ScenarioHolds ==
  (OpfBefore.manifest = ScenarioManifest /\ OpfBefore.spine = ScenarioSpine)
    => Idrefs(OpfAfter.spine) = <<"titlepage", "intro", "page_1", "page_2">>

\* C10 as stated: after a repair the front ids that were in the manifest with
\* a resolving href and not in the spine are in the spine, in the order
\* titlepage, intro, book_info, right before the first itemref of a numbered
\* page (page_<N>); the scenario spine becomes titlepage, intro, page_1, page_2
C10_FrontBeforeFirstNumberedPage ==
  AfterFix =>
    LET s == OpfAfter.spine
        p == FirstNumberedPage(s)
    IN  /\ \A k \in 1..Len(MissingFront) : \E j \in 1..Len(s) : s[j].idref = MissingFront[k]
        /\ p # 0 => Before(s, p, Len(MissingFront)) = MissingFront
        /\ ScenarioHolds

\* C10 as amended: the same, with the front ids placed right before the first
\* itemref whose idref starts with page_, numbered or not, and at the end of
\* the spine when there is no such itemref
C10_FrontBeforeFirstPagePrefix ==
  AfterFix =>
    LET s == OpfAfter.spine
        q == FirstPagePrefix(s)
        p == IF q = 0 THEN Len(s) + 1 ELSE q
    IN  /\ Before(s, p, Len(MissingFront)) = MissingFront
        /\ ScenarioHolds

\* a repair has returned that put a front id into a spine that had an
\* itemref in front of its first page
C10_Witness ==
  /\ AfterFix
  /\ Len(MissingFront) >= 1
  /\ FirstPagePrefix(OpfBefore.spine) > 1
  /\ FirstPagePrefix(OpfAfter.spine) > 2

----------------------------------------------------------------------------
(* _rewrite_epub_dedup step by step, with failing steps and a concurrent   *)
(* reader of input_file.  A step that raises inside the try block goes to  *)
(* the finally clause with the exception in flight.  NamedTemporaryFile    *)
(* either raises without creating a file or returns with the empty file    *)
(* created and closed; unlink of the temp file does not fail.              *)

OutPathInput == "input"

\* the path the output archive is written to: ZipFile(tmp_path, "w", ...)
OutPath == "tmp"

Original == ZipOf(job.book)

Replacement == ZipOf(RewrittenEntries(job.book, job.infos, job.repl, clock))

Raise == pc' = "finally" /\ exc' = TRUE

RwFrame == UNCHANGED <<clock, last, seen>> /\ Elsewhere

\* tempfile.NamedTemporaryFile(dir=..., suffix=..., delete=False)
RwCreateTemp ==
  /\ pc = "start"
  /\ \/ /\ disk' = [disk EXCEPT !.tmp = [exists |-> TRUE, sealed |-> FALSE, entries |-> <<>>]]
        /\ tmpMade' = TRUE
        /\ pc' = "open"
        /\ UNCHANGED exc
     \/ /\ pc' = "raised"
        /\ exc' = TRUE
        /\ UNCHANGED <<disk, tmpMade>>
  /\ UNCHANGED job
  /\ RwFrame

\* ZipFile(tmp_path, "w", compression=ZIP_DEFLATED): the file is truncated
RwOpenZip ==
  /\ pc = "open"
  /\ \/ /\ disk' = [disk EXCEPT ![OutPath] = [exists |-> TRUE, sealed |-> FALSE, entries |-> <<>>]]
        /\ pc' = "mimetype"
        /\ UNCHANGED exc
     \/ Raise /\ UNCHANGED disk
  /\ UNCHANGED <<job, tmpMade>>
  /\ RwFrame

\* if any(i.filename == "mimetype" ...): out.writestr("mimetype", ...)
RwWriteMimetype ==
  /\ pc = "mimetype"
  /\ \/ /\ disk' = IF \E k \in 1..Len(job.infos) : job.infos[k].filename = MIMETYPE
                   THEN [disk EXCEPT ![OutPath].entries = Append(@, MimetypeMember(job.book, clock))]
                   ELSE disk
        /\ pc' = "entries"
        /\ job' = [job EXCEPT !.idx = 1]
        /\ UNCHANGED exc
     \/ Raise /\ UNCHANGED <<disk, job>>
  /\ UNCHANGED tmpMade
  /\ RwFrame

\* one round of: for info in unique_infos
RwWriteEntry ==
  /\ pc = "entries"
  /\ job.idx <= Len(job.infos)
  /\ \/ /\ disk' = IF job.infos[job.idx].filename = MIMETYPE THEN disk
                   ELSE [disk EXCEPT ![OutPath].entries =
                           Append(@, Member(job.book, job.infos[job.idx], job.repl))]
        /\ job' = [job EXCEPT !.idx = @ + 1]
        /\ UNCHANGED <<pc, exc>>
     \/ Raise /\ UNCHANGED <<disk, job>>
  /\ UNCHANGED tmpMade
  /\ RwFrame

\* leaving "with ZipFile(...) as out": the central directory is written
RwCloseZip ==
  /\ pc = "entries"
  /\ job.idx > Len(job.infos)
  /\ \/ /\ disk' = [disk EXCEPT ![OutPath].sealed = TRUE]
        /\ pc' = "replace"
        /\ UNCHANGED exc
     \/ Raise /\ UNCHANGED disk
  /\ UNCHANGED <<job, tmpMade>>
  /\ RwFrame

\* tmp_path.replace(input_file): an atomic rename
RwReplace ==
  /\ pc = "replace"
  /\ \/ /\ disk' = [input |-> disk.tmp, tmp |-> NoFile]
        /\ pc' = "finally"
        /\ UNCHANGED exc
     \/ Raise /\ UNCHANGED disk
  /\ UNCHANGED <<job, tmpMade>>
  /\ RwFrame

RwFinallyNoUnlink ==
  /\ pc = "finally"
  /\ pc' = IF exc THEN "raised" ELSE "returned"
  /\ UNCHANGED <<disk, job, exc, tmpMade>>
  /\ RwFrame

\* finally: tmp_path.unlink(missing_ok=True); then return or re-raise
RwFinally ==
  /\ pc = "finally"
  /\ disk' = [disk EXCEPT !.tmp = NoFile]
  /\ pc' = IF exc THEN "raised" ELSE "returned"
  /\ UNCHANGED <<job, exc, tmpMade>>
  /\ RwFrame

\* another process opens and reads input_file
ReaderReads ==
  /\ pc \notin {"idle", "returned", "raised"}
  /\ seen' = disk.input
  /\ UNCHANGED <<disk, clock, last, pc, job, exc, tmpMade>>
  /\ Elsewhere

RewriteMembers ==
  { Entry(MIMETYPE, Bytes("epub+zip"), "deflated", 0),
    Entry(OpfName, SmallOpf, "deflated", 0),
    Entry(CssName, CssBytes("none"), "deflated", 0),
    Entry(CssName, CssBytes("far"), "stored", 0) }

\* the replacements a caller passes: none, or new bytes for one member
ReplacementsFor(entries) ==
  {NoRepl} \cup {(n :> Bytes("new")) : n \in Namelist(entries) \ {MIMETYPE}}

InitRewrite ==
  /\ \E p \in SeqsUpTo(RewriteMembers, MaxEntries) :
       /\ disk = [input |-> ZipOf(p), tmp |-> NoFile]
       /\ seen = ZipOf(p)
       /\ \E r \in ReplacementsFor(p) :
            job = [book |-> p, infos |-> UniqueInfos(p), repl |-> r, idx |-> 0]
  /\ clock \in 0..MaxClock
  /\ last = NoCall
  /\ pc = "start"
  /\ exc = FALSE
  /\ tmpMade = FALSE
  /\ InitElsewhere

NextRewrite ==
  \/ RwCreateTemp
  \/ RwOpenZip
  \/ RwWriteMimetype
  \/ RwWriteEntry
  \/ RwCloseZip
  \/ RwReplace
  \/ RwFinally
  \/ ReaderReads

SpecRewrite == InitRewrite /\ [][NextRewrite]_vars

\* C8: at every step of a rewrite the file at input_file, and so whatever a
\* concurrent reader reads there, is the complete original archive or the
\* complete rewritten archive; a rewrite that ends with an exception leaves
\* the original, and only a rewrite without a failing step returns normally
C8_AtomicReplace ==
  /\ disk.input \in {Original, Replacement}
  /\ seen \in {Original, Replacement}
  /\ pc = "raised" => (exc /\ disk.input = Original)
  /\ pc = "returned" => (~exc /\ disk.input = Replacement)

\* a rewrite has failed after writing members of a different archive into
\* the temp file, and a reader has read input_file since the writing began
C8_Witness ==
  /\ pc = "raised"
  /\ job.idx > 1
  /\ Original # Replacement
  /\ seen = Original
  /\ disk.input = Original

\* C9: whenever _rewrite_epub_dedup has finished, normally or with an
\* exception raised after the temp file was created, no file is left under
\* the temp name
C9_NoTempLeak == (pc \in {"returned", "raised"} /\ tmpMade) => ~disk.tmp.exists

\* a rewrite has ended with an exception raised while members were being
\* written to the temp file
C9_Witness ==
  /\ pc = "raised"
  /\ tmpMade
  /\ job.idx >= 1
  /\ job.idx <= Len(job.infos)

----------------------------------------------------------------------------
(* OPF selection *)

\* a member named *.opf that parses as XML and has a manifest and a spine
Qualifies(info) ==
  EndsWithOpf(info.filename) /\ info.data.syntax = "xml" /\ info.data.hasMS

\* the positions of the last qualifying candidate in archive order
Authoritative(infos) ==
  {i \in 1..Len(infos) :
     Qualifies(infos[i]) /\ \A j \in (i + 1)..Len(infos) : ~Qualifies(infos[j])}

\* the names ending in .opf other than n
OtherOpfNames(infos, n) == {m \in Namelist(infos) : EndsWithOpf(m) /\ m # n}

\* C17: repair and RTL use the last member named *.opf, in archive order,
\* that parses and has a manifest and a spine: the member of that name comes
\* out as the repaired (or rtl) form of that candidate and no other *.opf
\* name changes its bytes; without a qualifying candidate the archive is
\* left as it was
C17_OpfSelection ==
  last.op \in {"fix", "rtl"} =>
    IF Authoritative(last.before) = {}
    THEN ~last.rewrote /\ Infolist = last.before
    ELSE \A i \in Authoritative(last.before) :
           /\ last.op = "fix" =>
                /\ last.rewrote
                /\ Read(Infolist, last.before[i].filename) = RepairedOpf(last.before, i)
           /\ (last.op = "rtl" /\ last.rewrote) =>
                /\ Read(Infolist, last.before[i].filename).ppd = "rtl"
                /\ Read(Infolist, last.before[i].filename).manifest
                     = last.before[i].data.manifest
                /\ Read(Infolist, last.before[i].filename).spine
                     = last.before[i].data.spine
           /\ last.rewrote =>
                \A m \in OtherOpfNames(last.before, last.before[i].filename) :
                  Read(Infolist, m) = Read(last.before, m)

\* a repair has run on an archive with two qualifying candidates of
\* different names followed by a candidate that does not parse
C17_Witness ==
  /\ last.op = "fix"
  /\ last.rewrote
  /\ \E i, j, k \in 1..Len(last.before) :
       /\ i < j /\ j < k
       /\ Qualifies(last.before[i])
       /\ Qualifies(last.before[j])
       /\ last.before[i].filename # last.before[j].filename
       /\ EndsWithOpf(last.before[k].filename)
       /\ last.before[k].data.syntax = "bad"

----------------------------------------------------------------------------
(* Manifest de-duplication *)

\* the positions of the items of manifest m with the id
SameId(m, id) == {i \in 1..Len(m) : m[i].tag = "item" /\ m[i].id = id}

\* the non-empty ids that two or more items of manifest m share
SharedIds(m) ==
  {id \in {m[i].id : i \in 1..Len(m)} \ {""} : Cardinality(SameId(m, id)) >= 2}

\* an item of the OPF before the repair, its href case-fixed
CaseFixed(item) ==
  IF item.href.present
  THEN [item EXCEPT !.href = FixHrefCase(ZipNames, Front(OpfNameBefore), item.href)]
  ELSE item

\* of the positions S of manifest m: the last one whose case-fixed href
\* resolves, or the last one when none resolves
WinnerIn(m, S) ==
  IF \E i \in S : ~Unresolved(CaseFixed(m[i]))
  THEN MaxOf({i \in S : ~Unresolved(CaseFixed(m[i]))})
  ELSE MaxOf(S)

\* the item of the id that the pairwise rule leaves
Winner(m, id) == CaseFixed(m[WinnerIn(m, SameId(m, id))])

\* the items of manifest m with the id, as a set
ItemsOf(m, id) == {m[i] : i \in SameId(m, id)}

\* the winner is an item the second loop of the repair drops
WinnerDropped(item) == item.href.present /\ Unresolved(item) /\ PointsIntoText(item)

\* C18 as stated: of the items sharing one id exactly one is in the manifest
\* after a repair: the last one whose href resolves, or the last one when
\* none resolves
C18_ExactlyOneSurvives ==
  AfterFix =>
    \A id \in SharedIds(OpfBefore.manifest) :
      /\ Cardinality(SameId(OpfAfter.manifest, id)) = 1
      /\ ItemsOf(OpfAfter.manifest, id) = {Winner(OpfBefore.manifest, id)}

\* C18 as amended: of the items sharing one id at most one is in the manifest
\* after a repair: the last one whose href resolves, or the last one when none
\* resolves, and none when that item's href is unresolvable and points into a
\* text directory
C18_AtMostOneSurvives ==
  AfterFix =>
    \A id \in SharedIds(OpfBefore.manifest) :
      IF WinnerDropped(Winner(OpfBefore.manifest, id))
      THEN SameId(OpfAfter.manifest, id) = {}
      ELSE /\ Cardinality(SameId(OpfAfter.manifest, id)) = 1
           /\ ItemsOf(OpfAfter.manifest, id) = {Winner(OpfBefore.manifest, id)}

\* a repair has returned on a manifest with three items of one id, of which
\* only the first resolved, and that first item is the one left
C18_Witness ==
  /\ AfterFix
  /\ Len(OpfBefore.manifest) >= 3
  /\ OpfBefore.manifest[1].id = "doc"
  /\ SameId(OpfBefore.manifest, "doc") = {1, 2, 3}
  /\ ~Unresolved(OpfBefore.manifest[1])
  /\ Unresolved(OpfBefore.manifest[2])
  /\ Unresolved(OpfBefore.manifest[3])
  /\ ItemsOf(OpfAfter.manifest, "doc") = {OpfBefore.manifest[1]}

----------------------------------------------------------------------------
(* Last write wins *)

\* the members of an archive with the name
Named(infos, n) == {i \in 1..Len(infos) : infos[i].filename = n}

\* the last member of an archive with the name
LastNamed(infos, n) == infos[MaxOf(Named(infos, n))]

\* C20: after a rewrite every name of the input archive is the name of
\* exactly one member of the output; without a replacement it has the bytes
\* and the compression mode of the last input member of that name (mimetype:
\* stored), with a replacement it has the replacement's bytes
C20_LastWriteWins ==
  pc = "returned" =>
    \A n \in Namelist(job.book) :
      /\ Cardinality(Named(disk.input.entries, n)) = 1
      /\ IF n \in DOMAIN job.repl
         THEN LastNamed(disk.input.entries, n).data = job.repl[n]
         ELSE /\ LastNamed(disk.input.entries, n).data = LastNamed(job.book, n).data
              /\ LastNamed(disk.input.entries, n).compress_type
                   = IF n = MIMETYPE THEN "stored"
                     ELSE LastNamed(job.book, n).compress_type

\* a rewrite has returned on an archive that held one name twice, with
\* different bytes and compression modes, and no replacement for that name
C20_Witness ==
  /\ pc = "returned"
  /\ \E i, j \in 1..Len(job.book) :
       /\ i < j
       /\ job.book[i].filename = job.book[j].filename
       /\ job.book[i].data # job.book[j].data
       /\ job.book[i].compress_type # job.book[j].compress_type
       /\ job.book[j].compress_type = "stored"
       /\ job.book[j].filename \notin DOMAIN job.repl
       /\ \A k \in (j + 1)..Len(job.book) : job.book[k].filename # job.book[j].filename

----------------------------------------------------------------------------
(* _reorder_pages on its own: call is [arg, tag, attr, res, done], the     *)
(* child list of a manifest or of a spine before and after the call        *)

\* the children the lists are assembled from: pages, two with the same
\* number, a child that is no page and a child of another tag
SpineChildren ==
  { Itemref("page_2"), Itemref("page_1"), Itemref("page_01"), Itemref("page_3"),
    Itemref("intro"), Itemref("page_x"), [tag |-> "meta", idref |-> "page_4"] }

ManifestChildren ==
  { Item("page_2", NoHref), Item("page_1", NoHref), Item("page_01", NoHref),
    Item("nav", NoHref), [tag |-> "meta", id |-> "page_3", href |-> NoHref] }

InitReorder ==
  /\ \/ \E c \in SeqsUpTo(SpineChildren, MaxChildren) :
          call = [arg |-> c, tag |-> "itemref", attr |-> "idref", res |-> <<>>, done |-> FALSE]
     \/ \E c \in SeqsUpTo(ManifestChildren, MaxChildren) :
          call = [arg |-> c, tag |-> "item", attr |-> "id", res |-> <<>>, done |-> FALSE]
  /\ disk = [input |-> NoFile, tmp |-> NoFile]
  /\ clock = 0
  /\ last = NoCall
  /\ pc = "idle"
  /\ job = NoJob
  /\ exc = FALSE
  /\ tmpMade = FALSE
  /\ seen = NoFile
  /\ queue = NoQueue
  /\ files = {}
  /\ bok = NoBok
  /\ out = NoFile

\* _reorder_pages(parent, namespace, tag_name, attr)
ReorderPagesCall ==
  /\ ~call.done
  /\ call' = [call EXCEPT !.res = ReorderPages(call.arg, call.tag, call.attr),
                          !.done = TRUE]
  /\ UNCHANGED <<disk, clock, last, pc, job, exc, tmpMade, seen, queue, files, bok, out>>

NextReorder == ReorderPagesCall

SpecReorder == InitReorder /\ [][NextReorder]_vars

\* a child of the tag whose id/idref is of the form page_<N>
IsPage(c) == c.tag = call.tag /\ PageNumber(c[call.attr]) # -1

\* the pages of a child list, in order
PagesOf(children) == SelectSeq(children, IsPage)

\* the pages of a child list with number v, in order
PagesNumbered(children, v) ==
  SelectSeq(children, LAMBDA c : IsPage(c) /\ PageNumber(c[call.attr]) = v)

\* the numbers along a list of pages never decrease
Ascending(pages) ==
  \A i, j \in 1..Len(pages) :
    i < j => PageNumber(pages[i][call.attr]) <= PageNumber(pages[j][call.attr])

\* C19: _reorder_pages neither adds nor removes a child, leaves every child
\* that is not a page_<N> child of the tag at its position, and fills the
\* positions of the page_<N> children with those children in ascending order
\* of N, children of equal N in their original order
C19_ReorderPagesFrame ==
  call.done =>
    /\ Len(call.res) = Len(call.arg)
    /\ \A i \in 1..Len(call.arg) :
         IF IsPage(call.arg[i]) THEN IsPage(call.res[i]) ELSE call.res[i] = call.arg[i]
    /\ Ascending(PagesOf(call.res))
    /\ \A v \in 1..4 : PagesNumbered(call.res, v) = PagesNumbered(call.arg, v)

\* a call has reordered a list in which a page of a higher number came before
\* a page of a lower number, with a child that is no page between them
C19_Witness ==
  /\ call.done
  /\ call.res # call.arg
  /\ Len(call.arg) = 3
  /\ \E i, j, k \in 1..Len(call.arg) :
       /\ i < j /\ j < k
       /\ IsPage(call.arg[i]) /\ ~IsPage(call.arg[j]) /\ IsPage(call.arg[k])
       /\ PageNumber(call.arg[i][call.attr]) > PageNumber(call.arg[k][call.attr])

----------------------------------------------------------------------------
(* The conversion queue (utils/converter_options.py, modules/converter.py). *)
(* queue maps a request id to its ConversionRequestState, files is the set *)
(* of paths in the download directory at which a file exists, clock is     *)
(* monotonic() in ticks of half an hour.                                   *)

QUEUE_TTL_SECONDS == 1

BOOL_OPTION_ATTRS ==
  [rtl |-> "force_rtl", compress_cover |-> "compress_cover", fix_epub |-> "fix_epub",
   flat_toc |-> "flat_toc", smarten |-> "smarten_punctuation",
   remove_paragraph_spacing |-> "remove_paragraph_spacing", docx_no_toc |-> "docx_no_toc",
   epub_inline_toc |-> "epub_inline_toc",
   epub_remove_background |-> "epub_remove_background",
   pdf_page_numbers |-> "pdf_page_numbers"]

EPUB_ONLY_BOOL_OPTIONS == {"fix_epub", "flat_toc"}

VALUE_OPTION_ATTRS ==
  [change_justification |-> "change_justification", kfx_doc_type |-> "kfx_doc_type",
   kfx_pages |-> "kfx_pages", docx_page_size |-> "docx_page_size",
   epub_version |-> "epub_version", pdf_paper_size |-> "pdf_paper_size"]

\* kfx_pages is None or the int 0, written "None" and "0"
VALUE_OPTION_MAP ==
  [change_justification |-> [original |-> "original", left |-> "left", justify |-> "justify"],
   kfx_doc_type |-> [doc |-> "doc", book |-> "book"],
   kfx_pages |-> [none |-> "None", auto |-> "0"],
   docx_page_size |-> [default |-> "default", letter |-> "letter", a4 |-> "a4"],
   epub_version |-> ("default" :> "default") @@ ("2" :> "2") @@ ("3" :> "3"),
   pdf_paper_size |-> [default |-> "default", letter |-> "letter", a4 |-> "a4"]]

\* ConversionRequestState(input_file_path, queued_at, input_ext) with the
\* defaults of the dataclass
ConversionRequestState(input_file_path, queued_at, input_ext) ==
  [input_file_path |-> input_file_path, queued_at |-> queued_at, input_ext |-> input_ext,
   force_rtl |-> FALSE, compress_cover |-> FALSE, fix_epub |-> FALSE, flat_toc |-> FALSE,
   smarten_punctuation |-> FALSE, change_justification |-> "original",
   remove_paragraph_spacing |-> FALSE, kfx_doc_type |-> "doc", kfx_pages |-> "None",
   options_context |-> "docx", docx_page_size |-> "default", docx_no_toc |-> FALSE,
   epub_version |-> "default", epub_inline_toc |-> FALSE, epub_remove_background |-> FALSE,
   pdf_paper_size |-> "default", pdf_page_numbers |-> FALSE]

\* the branch of set_request_option for option_key = "reset"
ResetOptions(state) ==
  [state EXCEPT !.force_rtl = FALSE, !.compress_cover = FALSE, !.fix_epub = FALSE,
                !.flat_toc = FALSE, !.smarten_punctuation = FALSE,
                !.change_justification = "original", !.remove_paragraph_spacing = FALSE,
                !.kfx_doc_type = "doc", !.kfx_pages = "None", !.docx_page_size = "default",
                !.docx_no_toc = FALSE, !.epub_version = "default",
                !.epub_inline_toc = FALSE, !.epub_remove_background = FALSE,
                !.pdf_paper_size = "default", !.pdf_page_numbers = FALSE]

\* {"1": True, "0": False}.get(option_value) is not None
IsBoolValue(option_value) == option_value \in {"0", "1"}

SetRequestOptionUnchecked(state, option_key, option_value) ==
  IF option_key = "reset" THEN [state |-> ResetOptions(state), ret |-> TRUE]
  ELSE IF option_key \in DOMAIN BOOL_OPTION_ATTRS
  THEN IF ~IsBoolValue(option_value) THEN [state |-> state, ret |-> FALSE]
       ELSE [state |-> [state EXCEPT ![BOOL_OPTION_ATTRS[option_key]] = (option_value = "1")],
             ret |-> ~(option_key \in EPUB_ONLY_BOOL_OPTIONS /\ state.input_ext # "epub")]
  ELSE IF /\ option_key \in DOMAIN VALUE_OPTION_ATTRS
          /\ option_value \in DOMAIN VALUE_OPTION_MAP[option_key]
  THEN [state |-> [state EXCEPT ![VALUE_OPTION_ATTRS[option_key]] =
                                  VALUE_OPTION_MAP[option_key][option_value]],
        ret |-> TRUE]
  ELSE [state |-> state, ret |-> FALSE]

\* set_request_option: [state |-> the state afterwards, ret |-> the result]
SetRequestOption(state, option_key, option_value) ==
  IF option_key = "reset" THEN [state |-> ResetOptions(state), ret |-> TRUE]
  ELSE IF option_key \in DOMAIN BOOL_OPTION_ATTRS
  THEN IF \/ ~IsBoolValue(option_value)
          \/ (option_key \in EPUB_ONLY_BOOL_OPTIONS /\ state.input_ext # "epub")
       THEN [state |-> state, ret |-> FALSE]
       ELSE [state |-> [state EXCEPT ![BOOL_OPTION_ATTRS[option_key]] = (option_value = "1")],
             ret |-> TRUE]
  ELSE IF /\ option_key \in DOMAIN VALUE_OPTION_ATTRS
          /\ option_value \in DOMAIN VALUE_OPTION_MAP[option_key]
  THEN [state |-> [state EXCEPT ![VALUE_OPTION_ATTRS[option_key]] =
                                  VALUE_OPTION_MAP[option_key][option_value]],
        ret |-> TRUE]
  ELSE [state |-> state, ret |-> FALSE]

\* the requests cleanup_expired_requests keeps: now - queued_at <= ttl_seconds
Kept(q, now, ttl_seconds) == {id \in DOMAIN q : now - q[id].queued_at <= ttl_seconds}

\* the queue and the files once the requests outside keep are popped and
\* their input files unlinked
Popped(q, fs, keep) ==
  [queue |-> [id \in keep |-> q[id]],
   files |-> fs \ {q[id].input_file_path : id \in DOMAIN q \ keep}]

CleanupExpiredRequestsStrict(q, fs, now, ttl_seconds) ==
  Popped(q, fs, {id \in DOMAIN q : now - q[id].queued_at < ttl_seconds})

\* cleanup_expired_requests(queue, ttl_seconds=...): [queue, files] afterwards
CleanupExpiredRequests(q, fs, now, ttl_seconds) ==
  Popped(q, fs, Kept(q, now, ttl_seconds))

\* get_request_state(event, request_id) after its cleanup, on the cleaned
\* [queue, files] c: the request is gone, or its file is and the request is
\* popped, or it is found and its queued_at refreshed
Lookup(c, request_id, now) ==
  IF request_id \notin DOMAIN c.queue
  THEN [queue |-> c.queue, files |-> c.files, found |-> FALSE]
  ELSE IF c.queue[request_id].input_file_path \notin c.files
  THEN [queue |-> [id \in DOMAIN c.queue \ {request_id} |-> c.queue[id]],
        files |-> c.files, found |-> FALSE]
  ELSE [queue |-> [c.queue EXCEPT ![request_id].queued_at = now],
        files |-> c.files, found |-> TRUE]

\* get_request_state(event, request_id, pop=False)
GetRequestState(q, fs, request_id, now) ==
  Lookup(CleanupExpiredRequests(q, fs, now, QUEUE_TTL_SECONDS), request_id, now)

RequestIds == 1..MaxRequests

\* the names download_media can give a downloaded file
Paths == 1..MaxRequests

InputExts == {"epub", "pdf"}

\* what the queue operations leave alone
QueueFrame == UNCHANGED <<disk, pc, job, exc, tmpMade, seen, bok, out, call>>

\* file_converter: the file is downloaded under a name no file has, the
\* expired requests are cleaned up and the request is queued under a new id
FileConverter ==
  /\ \E path \in Paths \ files, ext \in InputExts :
       \E c \in {CleanupExpiredRequests(queue, files \cup {path}, clock, QUEUE_TTL_SECONDS)} :
         \E random_id \in RequestIds \ DOMAIN c.queue :
           /\ queue' = (random_id :> ConversionRequestState(path, clock, ext)) @@ c.queue
           /\ files' = c.files
  /\ last' = [op |-> "file", before |-> queue, files |-> files, now |-> clock]
  /\ UNCHANGED clock
  /\ QueueFrame

\* one round of cleanup_queue_loop
CleanupQueueLoop ==
  /\ \E c \in {CleanupExpiredRequests(queue, files, clock, QUEUE_TTL_SECONDS)} :
       /\ queue' = c.queue
       /\ files' = c.files
  /\ last' = [op |-> "cleanup", before |-> queue, files |-> files, now |-> clock]
  /\ UNCHANGED clock
  /\ QueueFrame

\* view_switch_callback: get_request_state refreshes the request
ViewSwitchCallback ==
  /\ \E request_id \in RequestIds :
       \E g \in {GetRequestState(queue, files, request_id, clock)} :
         /\ queue' = g.queue
         /\ files' = g.files
  /\ last' = [op |-> "view", before |-> queue, files |-> files, now |-> clock]
  /\ UNCHANGED clock
  /\ QueueFrame

\* cancel_conversion_callback
CancelConversionCallback ==
  /\ \E request_id \in DOMAIN queue :
       /\ queue' = [id \in DOMAIN queue \ {request_id} |-> queue[id]]
       /\ files' = files \ {queue[request_id].input_file_path}
  /\ last' = [op |-> "cancel", before |-> queue, files |-> files, now |-> clock]
  /\ UNCHANGED clock
  /\ QueueFrame

\* monotonic() advances
QueueTick ==
  /\ clock < MaxNow
  /\ clock' = clock + 1
  /\ UNCHANGED <<queue, files, last>>
  /\ QueueFrame

InitQueue ==
  /\ queue = NoQueue
  /\ files = {}
  /\ clock = 0
  /\ last = NoCall
  /\ disk = [input |-> NoFile, tmp |-> NoFile]
  /\ pc = "idle"
  /\ job = NoJob
  /\ exc = FALSE
  /\ tmpMade = FALSE
  /\ seen = NoFile
  /\ bok = NoBok
  /\ out = NoFile
  /\ call = NoPure

NextQueue ==
  \/ FileConverter
  \/ CleanupQueueLoop
  \/ ViewSwitchCallback
  \/ CancelConversionCallback
  \/ QueueTick

SpecQueue == InitQueue /\ [][NextQueue]_vars

\* the age of a request of the queue before the last call, at that call
AgeBefore(id) == last.now - last.before[id].queued_at

----------------------------------------------------------------------------
(* Option callbacks on one queued request. *)

\* the option keys a callback can carry: every known key, reset, and one
\* the tables do not know
OptionKeys ==
  DOMAIN BOOL_OPTION_ATTRS \cup DOMAIN VALUE_OPTION_ATTRS \cup {"reset", "bogus"}

\* the values tried with a key: the two boolean tokens, the tokens of the
\* key and one token of another option
OptionValues(option_key) ==
  {"0", "1", "a4"} \cup
  (IF option_key \in DOMAIN VALUE_OPTION_MAP THEN DOMAIN VALUE_OPTION_MAP[option_key] ELSE {})

\* the record of a call of set_request_option: the state it was given, its
\* arguments and result, and the number of calls so far
OptionCall(request_id, before, option_key, option_value, ret, n) ==
  [op |-> "opt", id |-> request_id, before |-> before, key |-> option_key,
   value |-> option_value, ret |-> ret, n |-> n]

\* options_toggle_callback on a request get_request_state found (g is its
\* result): set_request_option acts on the state in the queue
ToggleFound(g, request_id, option_key, option_value) ==
  \E r \in {SetRequestOption(g.queue[request_id], option_key, option_value)} :
    /\ queue' = [g.queue EXCEPT ![request_id] = r.state]
    /\ files' = g.files
    /\ last' = OptionCall(request_id, g.queue[request_id], option_key, option_value,
                          r.ret, last.n + 1)

\* options_toggle_callback
OptionsToggleCallback ==
  /\ last.n < MaxOptionCalls
  /\ \E request_id \in RequestIds, option_key \in OptionKeys :
       \E option_value \in OptionValues(option_key) :
         \E g \in {GetRequestState(queue, files, request_id, clock)} :
           IF g.found
           THEN ToggleFound(g, request_id, option_key, option_value)
           ELSE /\ queue' = g.queue
                /\ files' = g.files
                /\ last' = [last EXCEPT !.op = "gone"]
  /\ UNCHANGED clock
  /\ QueueFrame

\* one request is queued, as file_converter leaves it
InitOptions ==
  /\ \E ext \in InputExts : queue = (1 :> ConversionRequestState(1, 0, ext))
  /\ files = {1}
  /\ clock = 0
  /\ last = [op |-> "none", n |-> 0]
  /\ disk = [input |-> NoFile, tmp |-> NoFile]
  /\ pc = "idle"
  /\ job = NoJob
  /\ exc = FALSE
  /\ tmpMade = FALSE
  /\ seen = NoFile
  /\ bok = NoBok
  /\ out = NoFile
  /\ call = NoPure

NextOptions == OptionsToggleCallback

SpecOptions == InitOptions /\ [][NextOptions]_vars

\* the attributes of a request state on which two states differ
Changed(before, after) == {a \in DOMAIN before : after[a] # before[a]}

\* the attribute an option key stands for
AttrOf(option_key) ==
  IF option_key \in DOMAIN BOOL_OPTION_ATTRS THEN {BOOL_OPTION_ATTRS[option_key]}
  ELSE IF option_key \in DOMAIN VALUE_OPTION_ATTRS THEN {VALUE_OPTION_ATTRS[option_key]}
  ELSE {}

\* the calls the claim lists as refused
Refused(option_key, option_value, input_ext) ==
  \/ option_key \notin DOMAIN BOOL_OPTION_ATTRS \cup DOMAIN VALUE_OPTION_ATTRS
  \/ /\ option_key \in DOMAIN VALUE_OPTION_ATTRS
     /\ option_value \notin DOMAIN VALUE_OPTION_MAP[option_key]
  \/ /\ option_key \in DOMAIN BOOL_OPTION_ATTRS
     /\ option_value \notin {"0", "1"}
  \/ /\ option_key \in {"fix_epub", "flat_toc"}
     /\ input_ext # "epub"

\* C16: set_request_option with a key other than reset changes at most the
\* one attribute its key stands for, after any sequence of calls; it returns
\* False exactly on the refused calls, and then the state is unchanged
C16_OptionFrame ==
  (last.op = "opt" /\ last.key # "reset") =>
    /\ DOMAIN queue[last.id] = DOMAIN last.before
    /\ Changed(last.before, queue[last.id]) \subseteq AttrOf(last.key)
    /\ Cardinality(Changed(last.before, queue[last.id])) <= 1
    /\ last.ret = ~Refused(last.key, last.value, last.before.input_ext)
    /\ ~last.ret => queue[last.id] = last.before

\* an epub-only flag has been refused on a request that is not an epub,
\* after an earlier call had changed the state
C16_Witness ==
  /\ last.op = "opt"
  /\ last.key = "fix_epub"
  /\ last.value = "1"
  /\ last.before.input_ext = "pdf"
  /\ ~last.ret
  /\ last.n = 2
  /\ last.before.kfx_pages = "0"
  /\ queue[last.id] = last.before

----------------------------------------------------------------------------
(* Synthesis of an EPUB from a .bok database (utils/bok_to_epub.py).       *)
(* A row of the content table is [kind, part]: kind says what its text     *)
(* column holds, part is the int of its part column, NoPart where to_int   *)
(* gives None.                                                             *)

NoPart == -1

\* the text of a row: blank, HTML, plain text of one paragraph group, plain
\* text of Sections numbered groups
RowKinds == {"blank", "html", "plain", "numbered"}

Sections == 5

Parts == {NoPart, 1, 10}

Row(kind, part) == [kind |-> kind, part |-> part]

\* len(_make_chunks(raw, split_numbered=...)) for the text of a row
ChunkCount(kind, split_numbered) ==
  IF kind = "blank" THEN 0
  ELSE IF split_numbered /\ kind = "numbered" THEN Sections
  ELSE 1

NextPageNumberOfRow(pages, i) == i

\* page_number = len(pages) + 1
NextPageNumber(pages, i) == Len(pages) + 1

\* the dict build_pages appends for chunk chunk_index of row i
Page(page_number, part, i, chunk_index) ==
  [page_number |-> page_number, part |-> part, row |-> i, chunk |-> chunk_index]

\* for chunk_index, paras in enumerate(chunks), from chunk k on
RECURSIVE AddChunks(_, _, _, _, _)
AddChunks(pages, part, i, n, k) ==
  IF k > n THEN pages
  ELSE AddChunks(Append(pages, Page(NextPageNumber(pages, i), part, i, k)), part, i, n, k + 1)

\* for i in range(n), from row i on; a row without text is skipped
RECURSIVE BuildPagesFrom(_, _, _, _)
BuildPagesFrom(rows, i, split_numbered, pages) ==
  IF i > Len(rows) THEN pages
  ELSE BuildPagesFrom(rows, i + 1, split_numbered,
                      AddChunks(pages, rows[i].part, i,
                                ChunkCount(rows[i].kind, split_numbered), 1))

\* the pages of build_pages(content_table, cols, split_numbered=...)
BuildPages(rows, split_numbered) == BuildPagesFrom(rows, 1, split_numbered, <<>>)

\* str(n) for n >= 0, one digit a token
RECURSIVE Str(_)
Str(n) ==
  IF n < 10 THEN <<<<"0", "1", "2", "3", "4", "5", "6", "7", "8", "9">>[n + 1]>>
  ELSE Str(n \div 10) \o Str(n % 10)

\* f"{n:0{zfill}d}"
RECURSIVE ZeroPad(_, _)
ZeroPad(digits, zfill) ==
  IF Len(digits) >= zfill THEN digits ELSE ZeroPad(<<"0">> \o digits, zfill)

\* sorted(..., key=page_number): p goes after the pages of acc that do not
\* come after it
RECURSIVE InsertPage(_, _)
InsertPage(acc, p) ==
  IF acc = <<>> \/ acc[Len(acc)].page_number <= p.page_number THEN Append(acc, p)
  ELSE Append(InsertPage(SubSeq(acc, 1, Len(acc) - 1), p), acc[Len(acc)])

RECURSIVE SortedFrom(_, _, _)
SortedFrom(pages, i, acc) ==
  IF i > Len(pages) THEN acc ELSE SortedFrom(pages, i + 1, InsertPage(acc, pages[i]))

SortedPages(pages) == SortedFrom(pages, 1, <<>>)

\* zfill of write_epub, on the sorted pages
Zfill(sorted_pages) ==
  IF sorted_pages # <<>>
  THEN Len(Str(sorted_pages[Len(sorted_pages)].page_number)) + 1
  ELSE 2

\* prefix = f"page_{int(part)}_" if isinstance(part, int) else "page_"
PagePrefix(part) ==
  IF part # NoPart THEN <<"page_">> \o Str(part) \o <<"_">> ELSE <<"page_">>

\* file_name of a page: the tokens of the string, "page_" and ".xhtml" one
\* token each and every other character a token
PageFileName(p, zfill) ==
  PagePrefix(p.part) \o ZeroPad(Str(p.page_number), zfill) \o <<".xhtml">>

\* page_entries of write_epub: (page_number, file_name) of each sorted page
PageEntriesOf(sorted_pages, zfill) ==
  [k \in 1..Len(sorted_pages) |->
     [page_number |-> sorted_pages[k].page_number,
      file_name |-> PageFileName(sorted_pages[k], zfill)]]

PageEntries(pages) == PageEntriesOf(SortedPages(pages), Zfill(SortedPages(pages)))

ContentRows == UNION {[1..n -> {Row(k, part) : k \in RowKinds, part \in Parts}] : n \in 0..MaxRows}

InitPages ==
  /\ \E rows \in ContentRows, split_numbered \in BOOLEAN :
       call = [arg |-> rows, split |-> split_numbered, res |-> <<>>, names |-> <<>>,
               done |-> FALSE]
  /\ queue = NoQueue
  /\ files = {}
  /\ clock = 0
  /\ last = NoCall
  /\ disk = [input |-> NoFile, tmp |-> NoFile]
  /\ pc = "idle"
  /\ job = NoJob
  /\ exc = FALSE
  /\ tmpMade = FALSE
  /\ seen = NoFile
  /\ bok = NoBok
  /\ out = NoFile

\* build_pages runs on the rows and write_epub names the content documents
BuildPagesCall ==
  /\ ~call.done
  /\ \E pages \in {BuildPages(call.arg, call.split)} :
       call' = [call EXCEPT !.res = pages, !.names = PageEntries(pages), !.done = TRUE]
  /\ UNCHANGED <<disk, clock, last, pc, job, exc, tmpMade, seen, queue, files, bok, out>>

NextPages == BuildPagesCall

SpecPages == InitPages /\ [][NextPages]_vars

\* the number of pages the rows of call.arg give
RECURSIVE Expected(_, _, _)
Expected(rows, split_numbered, i) ==
  IF i > Len(rows) THEN 0
  ELSE Expected(rows, split_numbered, i + 1) +
       (IF rows[i].kind = "blank" THEN 0
        ELSE IF split_numbered /\ rows[i].kind = "numbered" THEN Sections ELSE 1)

\* C11: the pages build_pages emits are numbered 1, 2, ..., n in emission
\* order, in either split mode, with rows that expand into several pages and
\* rows skipped as empty; the package has one content document for each
\* page number, each under a name of its own
C11_PageNumbers ==
  call.done =>
    /\ Len(call.res) = Expected(call.arg, call.split, 1)
    /\ \A k \in 1..Len(call.res) : call.res[k].page_number = k
    /\ Len(call.names) = Len(call.res)
    /\ \A k \in 1..Len(call.names) : call.names[k].page_number = k
    /\ \A j, k \in 1..Len(call.names) :
         call.names[j].file_name = call.names[k].file_name => j = k

\* a table with an empty row before a row that expands into several pages,
\* in parts 1 and 10, has given ten pages or more
C11_Witness ==
  /\ call.done
  /\ call.split
  /\ Len(call.arg) >= 3
  /\ call.arg[1].kind = "blank"
  /\ call.arg[2].kind = "numbered"
  /\ Len(call.res) >= 10
  /\ \E j, k \in 1..Len(call.res) : call.res[j].part = 1 /\ call.res[k].part = 10

----------------------------------------------------------------------------
(* nest_by_level.  An item is the value of its "level" key, [int, v]: int  *)
(* says that the value is an int.  The forest is kept as the code keeps    *)
(* it, a list of children for the root and for every entry; an entry is    *)
(* named by the position of its item, the root by 0.                       *)

NoLevel == [int |-> FALSE, v |-> 0]

IntLevel(n) == [int |-> TRUE, v |-> n]

MaxLevel == 3

\* level = int(lv) if isinstance(lv, int) and lv > 0 else 1
LevelOf(lv) == IF lv.int /\ lv.v > 0 THEN lv.v ELSE 1

RECURSIVE CloseOpenAbove(_, _)
CloseOpenAbove(stack, level) ==
  IF Len(stack) > 1 /\ stack[Len(stack)].level > level
  THEN CloseOpenAbove(SubSeq(stack, 1, Len(stack) - 1), level)
  ELSE stack

\* while len(stack) > 1 and stack[-1][0] >= level: stack.pop()
RECURSIVE CloseOpen(_, _)
CloseOpen(stack, level) ==
  IF Len(stack) > 1 /\ stack[Len(stack)].level >= level
  THEN CloseOpen(SubSeq(stack, 1, Len(stack) - 1), level)
  ELSE stack

\* stack[-1][1].append((make_entry(it), children)); stack.append((level,
\* children)), on the stack already popped
Attach(st, stack, i, level) ==
  [kids |-> [st.kids EXCEPT ![stack[Len(stack)].node] = Append(@, i)],
   stack |-> Append(stack, [level |-> level, node |-> i])]

\* for it in items, from item i on
RECURSIVE NestFrom(_, _, _)
NestFrom(items, i, st) ==
  IF i > Len(items) THEN st
  ELSE NestFrom(items, i + 1,
                Attach(st, CloseOpen(st.stack, LevelOf(items[i])), i, LevelOf(items[i])))

\* nest_by_level(items, make_entry): the children of the root and of every
\* entry
NestByLevel(items) ==
  NestFrom(items, 1, [kids |-> [n \in 0..Len(items) |-> <<>>],
                      stack |-> <<[level |-> 0, node |-> 0]>>]).kids

\* the items map_toc passes on: levels as parse_raw_toc leaves them, one of
\* them at least an int
TocItems ==
  {items \in UNION {[1..n -> {NoLevel} \cup {IntLevel(l) : l \in 1..MaxLevel}] :
                      n \in 1..MaxToc} :
     \E i \in 1..Len(items) : items[i].int}

InitNest ==
  /\ \E items \in TocItems : call = [arg |-> items, res |-> <<>>, done |-> FALSE]
  /\ queue = NoQueue
  /\ files = {}
  /\ clock = 0
  /\ last = NoCall
  /\ disk = [input |-> NoFile, tmp |-> NoFile]
  /\ pc = "idle"
  /\ job = NoJob
  /\ exc = FALSE
  /\ tmpMade = FALSE
  /\ seen = NoFile
  /\ bok = NoBok
  /\ out = NoFile

NestByLevelCall ==
  /\ ~call.done
  /\ call' = [call EXCEPT !.res = NestByLevel(call.arg), !.done = TRUE]
  /\ UNCHANGED <<disk, clock, last, pc, job, exc, tmpMade, seen, queue, files, bok, out>>

NextNest == NestByLevelCall

SpecNest == InitNest /\ [][NextNest]_vars

\* the pre-order traversal of the entries of todo and of those below them
RECURSIVE Preorder(_, _)
Preorder(kids, todo) ==
  IF todo = <<>> THEN <<>>
  ELSE <<Head(todo)>> \o Preorder(kids, kids[Head(todo)] \o Tail(todo))

\* the nearest item before i whose level is below that of i, 0 if none
Nearest(items, i) ==
  IF \E j \in 1..(i - 1) : LevelOf(items[j]) < LevelOf(items[i])
  THEN CHOOSE j \in 1..(i - 1) :
         /\ LevelOf(items[j]) < LevelOf(items[i])
         /\ \A k \in (j + 1)..(i - 1) : ~(LevelOf(items[k]) < LevelOf(items[i]))
  ELSE 0

OneTwoTwoOne == <<IntLevel(1), IntLevel(2), IntLevel(2), IntLevel(1)>>

\* C12: nest_by_level makes each entry the last child of the nearest entry
\* before it whose level is lower, a root if there is none; the pre-order
\* traversal of the forest is the input order and no entry is lost; the
\* levels 1, 2, 2, 1 give two roots, the first with two children
C12_Nesting ==
  call.done =>
    /\ \A i \in 1..Len(call.arg) :
         \E k \in 1..Len(call.res[Nearest(call.arg, i)]) :
           /\ call.res[Nearest(call.arg, i)][k] = i
           /\ \A j \in (k + 1)..Len(call.res[Nearest(call.arg, i)]) :
                call.res[Nearest(call.arg, i)][j] > i
    /\ Preorder(call.res, call.res[0]) = [i \in 1..Len(call.arg) |-> i]
    /\ call.arg = OneTwoTwoOne =>
         /\ call.res[0] = <<1, 4>>
         /\ call.res[1] = <<2, 3>>
         /\ call.res[2] = <<>> /\ call.res[3] = <<>> /\ call.res[4] = <<>>

\* the levels 1, 2, 2, 1 have been nested
C12_Witness ==
  /\ call.done
  /\ call.arg = OneTwoTwoOne
  /\ Len(call.res[0]) = 2

----------------------------------------------------------------------------
(* A run of bok_to_epub under Converter._convert_from_bok.  bok holds the  *)
(* database, the locals of the run and the file found at the destination   *)
(* when the run began; out is the file at the destination.                 *)

\* a table of the catalog: the first letter of its name, whether it is a
\* capital, the rest of the name, and number_of_rows of its header
Table(letter, cap, rest, rows) == [letter |-> letter, cap |-> cap, rest |-> rest, rows |-> rows]

\* the "" of pick_main_content_table
NoTable == Table("", FALSE, "", 0)

\* the b_tables of pick_main_content_table: t.lower().startswith("b")
IsBTable(t) == t.letter = "b"

BTables(table_names) == SelectSeq(table_names, IsBTable)

\* max(b_tables, key=row count): the first table with the largest count
RECURSIVE MaxByRows(_, _, _)
MaxByRows(b_tables, i, best) ==
  IF i > Len(b_tables) THEN best
  ELSE MaxByRows(b_tables, i + 1, IF b_tables[i].rows > best.rows THEN b_tables[i] ELSE best)

PickFirstTable(table_names) ==
  IF table_names # <<>> THEN table_names[1] ELSE NoTable

PickMainContentTable(table_names) ==
  IF BTables(table_names) # <<>>
  THEN MaxByRows(BTables(table_names), 2, BTables(table_names)[1])
  ELSE NoTable

\* text_col of bok_to_epub: nass, else the first column holding a str (txt
\* is the one column of the model that does), else ""
TextCol(content_cols) ==
  IF "nass" \in content_cols THEN "nass"
  ELSE IF "txt" \in content_cols THEN "txt"
  ELSE ""

\* the catalogs: sorted table names
Catalogs ==
  {<<>>,
   <<Table("t", FALSE, "1", 1)>>,
   <<Table("b", FALSE, "1", 2)>>,
   <<Table("b", TRUE, "2", 5), Table("b", FALSE, "1", 2), Table("t", FALSE, "1", 1)>>}

ColumnSets == {{"nass", "id"}, {"txt", "id"}, {"id"}}

\* the content rows of the runs: with text or without
TextRows == UNION {[1..n -> {Row("blank", NoPart), Row("plain", NoPart)}] : n \in 0..MaxRows}

\* the table of contents: none, or one entry whose start is 0
Tocs == {"none", "zero"}

\* a member name of the package: the directory and the tokens of the file
\* name
BokName(dir, file) == [dir |-> dir, file |-> file]

\* z.writestr(name, text) under ZIP_DEFLATED; data tells what was rendered
BokMember(dir, file, kind, n) ==
  Entry(BokName(dir, file), [kind |-> kind, n |-> n], "deflated", 0)

MimetypeEntry == Entry(BokName("", <<"mimetype">>), [kind |-> "mimetype", n |-> 0], "stored", 0)

\* the writes of write_epub before the content documents
HeadMembers ==
  <<MimetypeEntry,
    BokMember("META-INF", <<"container.xml">>, "container", 0),
    BokMember("OEBPS", <<"styles.css">>, "css", 0)>>

\* the content documents, one for each page entry
PageMembers(page_entries) ==
  [k \in 1..Len(page_entries) |->
     BokMember("OEBPS/text", page_entries[k].file_name, "page", page_entries[k].page_number)]

\* the writes of write_epub after the content documents
TailMembers ==
  <<BokMember("OEBPS", <<"info.xhtml">>, "info", 0),
    BokMember("OEBPS", <<"nav.xhtml">>, "nav", 0),
    BokMember("OEBPS", <<"toc.ncx">>, "ncx", 0),
    BokMember("OEBPS", <<"content.opf">>, "opf", 0)>>

\* every writestr of write_epub, in order
WriteList(pages) == HeadMembers \o PageMembers(PageEntries(pages)) \o TailMembers

\* a file left at the destination by an earlier conversion
OldEpub == ZipOf(<<MimetypeEntry>>)

\* toc_tree of bok_to_epub, as the page numbers its entries point to: an
\* entry of map_toc whose start is 0 points to page 1, and without a table
\* of contents there is an entry for every page
TocTree(toc, pages) ==
  IF toc = "zero" THEN <<1>> ELSE [k \in 1..Len(pages) |-> pages[k].page_number]

\* page_map[int(entry["page"])] raises KeyError for an entry of the tree
RenderRaises(toc_tree, pages) ==
  \E k \in 1..Len(toc_tree) : \A j \in 1..Len(pages) : pages[j].page_number # toc_tree[k]

StartBok(tables, cols, rows, toc, dest) ==
  [pc |-> "start", tables |-> tables, cols |-> cols, rows |-> rows, toc |-> toc,
   dest |-> dest, pages |-> <<>>, toc_tree |-> <<>>, todo |-> <<>>, error |-> ""]

InitBok ==
  /\ out \in {NoFile, OldEpub}
  /\ \E tables \in Catalogs, cols \in ColumnSets, rows \in TextRows, toc \in Tocs :
       bok = StartBok(tables, cols, rows, toc, out)
  /\ queue = NoQueue
  /\ files = {}
  /\ clock = 0
  /\ last = NoCall
  /\ disk = [input |-> NoFile, tmp |-> NoFile]
  /\ pc = "idle"
  /\ job = NoJob
  /\ exc = FALSE
  /\ tmpMade = FALSE
  /\ seen = NoFile
  /\ call = NoPure

BokFrame == UNCHANGED <<disk, clock, last, pc, job, exc, tmpMade, seen, queue, files, call>>

\* bok_to_epub up to the call of write_epub: the content table and the text
\* column are looked for, and the pages and the table of contents built
BokToEpubRead ==
  /\ bok.pc = "start"
  /\ IF PickMainContentTable(bok.tables) = NoTable
     THEN bok' = [bok EXCEPT !.pc = "raised", !.error = "content table"]
     ELSE IF TextCol(bok.cols) = ""
     THEN bok' = [bok EXCEPT !.pc = "raised", !.error = "text column"]
     ELSE \E pages \in {BuildPages(bok.rows, FALSE)} :
            bok' = [bok EXCEPT !.pc = "read", !.pages = pages,
                               !.toc_tree = TocTree(bok.toc, pages)]
  /\ UNCHANGED out
  /\ BokFrame

\* write_epub up to zipfile.ZipFile(out_file, "w", ...): the file is
\* created, or truncated
WriteEpubOpen ==
  /\ bok.pc = "read"
  /\ out' = [exists |-> TRUE, sealed |-> FALSE, entries |-> <<>>]
  /\ bok' = [bok EXCEPT !.pc = "writing", !.todo = WriteList(bok.pages)]
  /\ BokFrame

\* the next writestr of write_epub; when render_nav or render_ncx raises,
\* the with statement closes the archive and the exception goes on
WriteEpubMember ==
  /\ bok.pc = "writing"
  /\ bok.todo # <<>>
  /\ IF /\ Head(bok.todo).data.kind \in {"nav", "ncx"}
        /\ RenderRaises(bok.toc_tree, bok.pages)
     THEN /\ out' = [out EXCEPT !.sealed = TRUE]
          /\ bok' = [bok EXCEPT !.pc = "raised", !.error = "KeyError"]
     ELSE /\ out' = [out EXCEPT !.entries = Append(@, Head(bok.todo))]
          /\ bok' = [bok EXCEPT !.todo = Tail(@)]
  /\ BokFrame

\* the with statement of write_epub ends and bok_to_epub returns
WriteEpubClose ==
  /\ bok.pc = "writing"
  /\ bok.todo = <<>>
  /\ out' = [out EXCEPT !.sealed = TRUE]
  /\ bok' = [bok EXCEPT !.pc = "returned"]
  /\ BokFrame

\* the except clause of _convert_from_bok: the error is returned
ConvertFromBokExcept ==
  /\ bok.pc = "raised"
  /\ bok' = [bok EXCEPT !.pc = "reported"]
  /\ UNCHANGED out
  /\ BokFrame

NextBok ==
  \/ BokToEpubRead
  \/ WriteEpubOpen
  \/ WriteEpubMember
  \/ WriteEpubClose
  \/ ConvertFromBokExcept

SpecBok == InitBok /\ [][NextBok]_vars

\* bok_to_epub has failed on the structure of its source
SourceFailure == bok.pc \in {"raised", "reported"} /\ bok.error \in {"content table", "text column"}

\* C13: when the source has no table whose name starts with the content
\* prefix, or no text column is found in the content table, bok_to_epub
\* fails and the destination is neither created nor modified
C13_SourceFailureWritesNothing ==
  /\ (bok.pc \notin {"start"} /\ \A i \in 1..Len(bok.tables) : bok.tables[i].letter # "b")
       => (bok.pc \in {"raised", "reported"} /\ bok.error = "content table")
  /\ (bok.pc \notin {"start"} /\ (\E i \in 1..Len(bok.tables) : bok.tables[i].letter = "b")
        /\ bok.cols \cap {"nass", "txt"} = {})
       => (bok.pc \in {"raised", "reported"} /\ bok.error = "text column")
  /\ SourceFailure => out = bok.dest

\* a run has failed for want of a text column, a file of an earlier
\* conversion being at the destination
C13_Witness ==
  /\ bok.pc = "reported"
  /\ bok.error = "text column"
  /\ bok.dest = OldEpub
  /\ out = OldEpub

\* the file at the destination is a complete package of the run
CompletePackage ==
  /\ out.exists
  /\ out.sealed
  /\ out.entries = WriteList(bok.pages)

\* C14: when bok_to_epub has returned or failed, the destination holds a
\* complete package or nothing was written there
C14_NoPartialOutput ==
  bok.pc \in {"returned", "raised", "reported"} => (CompletePackage \/ out = bok.dest)

\* the page numbers of the pages build_pages emitted
EmittedPageNumbers == {bok.pages[j].page_number : j \in 1..Len(bok.pages)}

\* C28: every entry of the TOC that bok_to_epub hands to write_epub has a
\* target page that is the page_number of an emitted page, also for an
\* entry with start 0 and when no page was emitted
C28_TocTargetsExist ==
  \A k \in 1..Len(bok.toc_tree) : bok.toc_tree[k] \in EmittedPageNumbers

----------------------------------------------------------------------------
(* Navigation documents of every shape.  A shape is given by the depths of *)
(* its entries in document order; in an HTML list, fresh says which        *)
(* entries begin a further list inside the item that holds their list.     *)

\* the depths of n entries in document order
DepthSeqs(n) ==
  {d \in [1..n -> 1..n] :
     /\ n > 0 => d[1] = 1
     /\ \A i \in 1..(n - 1) : d[i + 1] <= d[i] + 1}

\* the last entry below entry i, among the entries up to hi
RECURSIVE SubtreeEnd(_, _, _)
SubtreeEnd(d, i, hi) ==
  IF \A k \in (i + 1)..hi : d[k] > d[i] THEN hi ELSE SubtreeEnd(d, i, hi - 1)

\* the navPoints of entries lo..hi, lo being the first of them
RECURSIVE PointsOf(_, _, _)
PointsOf(d, lo, hi) ==
  IF lo > hi THEN <<>>
  ELSE <<NavPoint("p", lo, lo, lo, PointsOf(d, lo + 1, SubtreeEnd(d, lo, hi)))>>
       \o PointsOf(d, SubtreeEnd(d, lo, hi) + 1, hi)

NavMaps == UNION {{PointsOf(d, 1, n) : d \in DepthSeqs(n)} : n \in 0..MaxPoints}

\* the marks of the entries that begin a further list: such an entry is not
\* at the top and follows the entries of an earlier list of its item
FreshMarks(d, n) ==
  {f \in [1..n -> BOOLEAN] :
     \A i \in 1..n : f[i] => (i > 1 /\ d[i] >= 2 /\ d[i] <= d[i - 1])}

\* the first entry after lo up to hi that begins a further list beside the
\* list of lo, hi + 1 if none
RECURSIVE NextList(_, _, _, _, _)
NextList(d, f, lo, k, hi) ==
  IF k > hi THEN hi + 1
  ELSE IF d[k] = d[lo] /\ f[k] THEN k
  ELSE NextList(d, f, lo, k + 1, hi)

RECURSIVE ListItems(_, _, _, _)
RECURSIVE ItemLists(_, _, _, _)

\* the items of the list that entry lo begins, among the entries up to hi
ListItems(d, f, lo, hi) ==
  IF lo > hi THEN <<>>
  ELSE <<Li(lo, ItemLists(d, f, lo + 1, SubtreeEnd(d, lo, hi)))>>
       \o ListItems(d, f, SubtreeEnd(d, lo, hi) + 1, hi)

\* the lists inside an item whose entries are lo..hi
ItemLists(d, f, lo, hi) ==
  IF lo > hi THEN <<>>
  ELSE <<ListItems(d, f, lo, NextList(d, f, lo, lo + 1, hi) - 1)>>
       \o ItemLists(d, f, NextList(d, f, lo, lo + 1, hi), hi)

ListsOfDepths(d, n) == {ListItems(d, f, 1, n) : f \in FreshMarks(d, n)}

TocLists == UNION {UNION {ListsOfDepths(d, n) : d \in DepthSeqs(n)} : n \in 0..MaxPoints}

\* a package with a toc.ncx and a nav.xhtml, without duplicate names and
\* with a stored mimetype
TocPackage(nav_map, ol) ==
  <<Entry(MIMETYPE, Bytes("epub+zip"), "stored", 0),
    Entry(TocName, NcxBytes(nav_map), "deflated", 0),
    Entry(NavName, NavBytes(ol), "deflated", 0)>>

InitToc ==
  /\ disk \in {[input |-> ZipOf(TocPackage(nav_map, ol)), tmp |-> NoFile] :
                 nav_map \in NavMaps, ol \in TocLists}
  /\ InitIdle

NextToc == FlattenToc \/ Tick

SpecToc == InitToc /\ [][NextToc]_vars

\* the labels of a forest of navPoints in depth-first pre-order
RECURSIVE PreorderLabels(_)
PreorderLabels(todo) ==
  IF todo = <<>> THEN <<>>
  ELSE <<Head(todo).label>> \o PreorderLabels(Head(todo).kids \o Tail(todo))

NavMapBefore == Read(last.before, TocName).navMap

NavMapAfter == Read(Infolist, TocName).navMap

\* C21: after flatten_toc the navMap of toc.ncx holds every navPoint of the
\* original tree once, as a direct child without navPoints of its own, in
\* the depth-first pre-order of the original tree, with playOrder 1, 2, ..., n
C21_NcxPreorder ==
  last.op = "flatten" =>
    /\ Len(NavMapAfter) = Len(PreorderLabels(NavMapBefore))
    /\ \A k \in 1..Len(NavMapAfter) :
         /\ NavMapAfter[k].label = PreorderLabels(NavMapBefore)[k]
         /\ NavMapAfter[k].kids = <<>>
         /\ NavMapAfter[k].playOrder = k

\* a tree of three navPoints, the second inside the first and the third
\* inside the second, has been flattened
C21_Witness ==
  /\ last.op = "flatten"
  /\ last.rewrote
  /\ Len(NavMapBefore) = 1
  /\ Len(NavMapBefore[1].kids) = 1
  /\ Len(NavMapBefore[1].kids[1].kids) = 1
  /\ Len(NavMapAfter) = 3

\* the items of the lists of subs, one list after the other
RECURSIVE Joined(_)
Joined(subs) == IF subs = <<>> THEN <<>> ELSE Head(subs) \o Joined(Tail(subs))

\* the links of the items of a list in depth-first pre-order: an item, then
\* the items of the lists inside it, then the items after it
RECURSIVE PreorderLinks(_)
PreorderLinks(todo) ==
  IF todo = <<>> THEN <<>>
  ELSE <<Head(todo).a>> \o PreorderLinks(Joined(Head(todo).sub) \o Tail(todo))

OlBefore == Read(last.before, NavName).ol

OlAfter == Read(Infolist, NavName).ol

\* C22: after flatten_toc no item of the list of nav.xhtml holds a list,
\* every original item is there once, and the items are in the depth-first
\* pre-order of the original nesting
C22_NavPreorder ==
  last.op = "flatten" =>
    /\ \A k \in 1..Len(OlAfter) : OlAfter[k].sub = <<>>
    /\ Len(OlAfter) = Len(PreorderLinks(OlBefore))
    /\ \A k \in 1..Len(OlAfter) : OlAfter[k].a = PreorderLinks(OlBefore)[k]

\* the archive before the last call had a toc.ncx without nested navPoints
\* and a nav.xhtml without nested lists, no duplicate names and a stored
\* mimetype
FlatBefore ==
  /\ \A k \in 1..Len(NavMapBefore) : NavMapBefore[k].kids = <<>>
  /\ \A k \in 1..Len(OlBefore) : OlBefore[k].sub = <<>>
  /\ ~NeedsCleanup(last.before, UniqueInfos(last.before))

\* C23: flatten_toc on an archive whose navigation documents are flat
\* reports no change and does not rewrite or modify the archive
C23_FlatNoOp ==
  (last.op = "flatten" /\ FlatBefore) => (~last.rewrote /\ Infolist = last.before)

----------------------------------------------------------------------------
(* Packages for the RTL mutation: the OPF is left-to-right or already      *)
(* right-to-left, the stylesheets lack the directive, have it late or have *)
(* it at the top.                                                          *)

RtlOpf == OpfBytes(TRUE, <<Item("intro", Href(<<Seg("text", "", TRUE), Seg("intro", "xhtml", FALSE)>>, ""))>>,
                   <<Itemref("intro")>>, "rtl")

RtlCssName == <<OEBPS, Seg("rtl", "css", FALSE)>>

RtlMembers ==
  { Entry(MIMETYPE, Bytes("epub+zip"), "stored", 0),
    Entry(MIMETYPE, Bytes("epub+zip"), "deflated", 0),
    Entry(OpfName, SmallOpf, "deflated", 0),
    Entry(OpfName, RtlOpf, "deflated", 0),
    Entry(OpfName, Bytes("<not xml"), "deflated", 0),
    Entry(CssName, CssBytes("none"), "deflated", 0),
    Entry(CssName, CssBytes("far"), "stored", 0),
    Entry(RtlCssName, CssBytes("near"), "deflated", 0) }

InitRtl ==
  /\ disk \in {[input |-> ZipOf(p), tmp |-> NoFile] : p \in SeqsUpTo(RtlMembers, MaxEntries)}
  /\ InitIdle

NextRtl == SetEpubToRtl \/ Tick

SpecRtl == InitRtl /\ [][NextRtl]_vars

\* the stylesheet has the directive in its first 300 bytes
DirectiveOnTop(css) == css.rtl = "near" \/ css.prefixed > 0

\* what the call leaves: the spine of the authoritative OPF is rtl, every
\* .css member has the directive on top, and a stylesheet that had it has
\* the bytes it had
RtlPostcondition ==
  /\ PickValidOpf(Infolist) # 0
  /\ Infolist[PickValidOpf(Infolist)].data.ppd = "rtl"
  /\ \A i \in 1..Len(Infolist) :
       EndsWithCss(Infolist[i].filename) => DirectiveOnTop(Infolist[i].data)
  /\ \A n \in Namelist(last.before) :
       (EndsWithCss(n) /\ DirectiveOnTop(Read(last.before, n)))
         => Read(Infolist, n) = Read(last.before, n)

\* the call had a direction to set or a stylesheet to prefix
RtlChange ==
  \/ last.before[PickValidOpf(last.before)].data.ppd # "rtl"
  \/ \E n \in Namelist(last.before) : EndsWithCss(n) /\ ~DirectiveOnTop(Read(last.before, n))

\* the archive had a name twice or a mimetype that is not stored
Untidy ==
  \/ \E i, j \in 1..Len(last.before) : i # j /\ last.before[i].filename = last.before[j].filename
  \/ \E i \in 1..Len(last.before) :
       /\ last.before[i].filename = MIMETYPE
       /\ last.before[i].compress_type # "stored"
       /\ \A j \in (i + 1)..Len(last.before) : last.before[j].filename # MIMETYPE

\* C24 as stated: after set_epub_to_rtl on an archive with a valid OPF the
\* spine is rtl and every stylesheet has the directive on top, one that had
\* it being left as it was; the call returns True exactly when it made such
\* a change, and without one it returns False and does not rewrite
C24_TrueIffRtlChange ==
  (last.op = "rtl" /\ PickValidOpf(last.before) # 0) =>
    /\ RtlPostcondition
    /\ last.ret = RtlChange
    /\ ~RtlChange => (~last.rewrote /\ Infolist = last.before)

\* C24 amended: the call returns True exactly when it has rewritten the
\* archive, which it does for a direction change and also to collapse
\* duplicate names or store the mimetype; otherwise it returns False and the
\* archive is as it was
C24_TrueIffRewritten ==
  (last.op = "rtl" /\ PickValidOpf(last.before) # 0) =>
    /\ RtlPostcondition
    /\ last.ret = (RtlChange \/ Untidy)
    /\ last.ret = last.rewrote
    /\ last.ret = (Infolist # last.before)

\* an archive that was right-to-left already, with a stylesheet that has the
\* directive on top, but with a name twice: the call has rewritten it,
\* returned True and left the stylesheet as it was
C24_Witness ==
  /\ last.op = "rtl"
  /\ PickValidOpf(last.before) # 0
  /\ ~RtlChange
  /\ Untidy
  /\ last.ret
  /\ RtlCssName \in Namelist(Infolist)
  /\ Len(Infolist) < Len(last.before)

----------------------------------------------------------------------------
(* The valid OPF across the three operations *)

\* the archive has a well-formed OPF with a manifest and a spine
HasValidOpf(infos) ==
  \E i \in 1..Len(infos) :
    /\ EndsWithOpf(infos[i].filename)
    /\ infos[i].data.syntax = "xml"
    /\ infos[i].data.hasMS

\* C27: an archive that had a valid OPF before fix_content_opf_problems,
\* flatten_toc or set_epub_to_rtl still has one afterwards, also when a
\* later malformed entry of the same name follows the valid one
C27_ValidOpfKept ==
  (last.op \in {"fix", "flatten", "rtl"} /\ HasValidOpf(last.before)) => HasValidOpf(Infolist)

----------------------------------------------------------------------------
(* parse_raw_toc.  A row of the TOC table is [text, start, level]: the     *)
(* stripped text and what to_int makes of the start and level columns,     *)
(* NoLevel for None.  An item of the result carries, besides the keys of   *)
(* the dict, the position of its row.                                      *)

TocRow(text, start, level) == [text |-> text, start |-> start, level |-> level]

\* "part" is a text that begins with the word for a part
TocTexts == {"", "chapter", "part"}

TocRows ==
  UNION {[1..n -> {TocRow(t, st, lv) : t \in TocTexts, st \in {NoLevel, IntLevel(1)},
                                       lv \in {NoLevel, IntLevel(0), IntLevel(1), IntLevel(3)}}] :
           n \in 0..MaxTocRows}

\* key = f"{start}|{level or ''}|{text}"
TocKey(row) ==
  <<row.start.v, IF row.level.int /\ row.level.v # 0 THEN row.level ELSE NoLevel, row.text>>

\* the loop of parse_raw_toc from row i on; st is [items, seen]
RECURSIVE RawItemsFrom(_, _, _)
RawItemsFrom(rows, i, st) ==
  IF i > Len(rows) THEN st.items
  ELSE RawItemsFrom(rows, i + 1,
         IF \/ rows[i].text = ""
            \/ ~rows[i].start.int
            \/ rows[i].text = "part"
            \/ TocKey(rows[i]) \in st.seen
         THEN st
         ELSE [items |-> Append(st.items, [start |-> rows[i].start.v, text |-> rows[i].text,
                                           level |-> rows[i].level, row |-> i]),
               seen |-> st.seen \cup {TocKey(rows[i])}])

\* levels_only, as a set
LevelsOnly(items) == {items[k].level.v : k \in {j \in 1..Len(items) : items[j].level.int}}

ShiftUp(mn) == IF mn <= 0 THEN 1 - mn ELSE 0

\* shift = 1 - mn if mn <= 0 else (1 - mn if mn > 1 else 0)
Shift(mn) == IF mn <= 0 THEN 1 - mn ELSE (IF mn > 1 THEN 1 - mn ELSE 0)

\* it["level"] = int(it["level"]) + shift for the items with an int level
Shifted(items, shift) ==
  [k \in 1..Len(items) |->
     IF items[k].level.int THEN [items[k] EXCEPT !.level.v = @ + shift] ELSE items[k]]

\* the normalisation of the levels at the end of parse_raw_toc
Normalized(items) ==
  IF LevelsOnly(items) # {} THEN Shifted(items, Shift(MinOf(LevelsOnly(items)))) ELSE items

\* parse_raw_toc(toc_table, ...): the items, <<>> for None
ParseRawToc(rows) == Normalized(RawItemsFrom(rows, 1, [items |-> <<>>, seen |-> {}]))

InitRawToc ==
  /\ \E rows \in TocRows : call = [arg |-> rows, res |-> <<>>, done |-> FALSE]
  /\ queue = NoQueue
  /\ files = {}
  /\ clock = 0
  /\ last = NoCall
  /\ disk = [input |-> NoFile, tmp |-> NoFile]
  /\ pc = "idle"
  /\ job = NoJob
  /\ exc = FALSE
  /\ tmpMade = FALSE
  /\ seen = NoFile
  /\ bok = NoBok
  /\ out = NoFile

ParseRawTocCall ==
  /\ ~call.done
  /\ call' = [call EXCEPT !.res = ParseRawToc(call.arg), !.done = TRUE]
  /\ UNCHANGED <<disk, clock, last, pc, job, exc, tmpMade, seen, queue, files, bok, out>>

NextRawToc == ParseRawTocCall

SpecRawToc == InitRawToc /\ [][NextRawToc]_vars

\* every item has the level of its row moved by s, or no level as its row
MovedBy(s) ==
  \A k \in 1..Len(call.res) :
    /\ call.res[k].level.int = call.arg[call.res[k].row].level.int
    /\ call.res[k].level.int => call.res[k].level.v = call.arg[call.res[k].row].level.v + s
    /\ ~call.res[k].level.int => call.res[k].level = NoLevel

\* C25: when an entry parse_raw_toc returns has an int level, the lowest
\* level among the entries returned is 1 and every level was shifted by the
\* same amount; entries without a level stay without one
C25_LevelsNormalized ==
  (call.done /\ \E k \in 1..Len(call.res) : call.res[k].level.int) =>
    /\ \E k \in 1..Len(call.res) : call.res[k].level.int /\ call.res[k].level.v = 1
    /\ \A k \in 1..Len(call.res) : call.res[k].level.int => call.res[k].level.v >= 1
    /\ \E s \in -3..3 : MovedBy(s)

\* of three rows one was left out, and a level that began at 3 has been
\* shifted down beside an entry without a level
C25_Witness ==
  /\ call.done
  /\ Len(call.res) = 2
  /\ Len(call.arg) = 3
  /\ \E k \in 1..2 : ~call.res[k].level.int
  /\ \E k \in 1..2 : call.res[k].level.int /\ call.arg[call.res[k].row].level.v = 3
  /\ MovedBy(-2)

----------------------------------------------------------------------------
(* build_pages with identifiers.  A row is [kind, part, id, head]: id is   *)
(* the int of its id column, NoId for None; head is the chunk whose first  *)
(* paragraph is a heading, counted from 1, and 0 when no chunk has one.    *)

NoId == -1

IdRow(kind, id, head) == [kind |-> kind, part |-> NoPart, id |-> id, head |-> head]

\* _anchor_chunk_index(chunks), counted from 1, for a row of n chunks
AnchorChunkIndex(row, n) == IF row.head >= 1 /\ row.head <= n THEN row.head ELSE 1

\* is_toc_start = bool(toc_starts and idv is not None and idv in toc_starts)
IsTocStart(row, toc_starts) == row.id # NoId /\ row.id \in toc_starts

\* one round of "for chunk_index, paras in enumerate(chunks)"; st is
\* [pages, ids, marks]: the pages, id_to_page_number, and the [page, id] of
\* the pages whose body got the marker <a id="toc_{id}">
AnchorStep(st, row, i, k, is_toc_start, anchor_chunk_index) ==
  [pages |-> Append(st.pages, Page(NextPageNumber(st.pages, i), row.part, i, k)),
   ids |-> IF row.id # NoId /\ (~is_toc_start \/ k = anchor_chunk_index)
           THEN (row.id :> NextPageNumber(st.pages, i)) @@ st.ids
           ELSE st.ids,
   marks |-> IF is_toc_start /\ k = anchor_chunk_index
             THEN st.marks \cup {[page |-> NextPageNumber(st.pages, i), id |-> row.id]}
             ELSE st.marks]

RECURSIVE AnchorChunks(_, _, _, _, _, _)
AnchorChunks(st, row, i, n, k, toc_starts) ==
  IF k > n THEN st
  ELSE AnchorChunks(AnchorStep(st, row, i, k, IsTocStart(row, toc_starts),
                               IF IsTocStart(row, toc_starts) THEN AnchorChunkIndex(row, n) ELSE 1),
                    row, i, n, k + 1, toc_starts)

RECURSIVE AnchorPagesFrom(_, _, _, _, _)
AnchorPagesFrom(rows, i, split_numbered, toc_starts, st) ==
  IF i > Len(rows) THEN st
  ELSE AnchorPagesFrom(rows, i + 1, split_numbered, toc_starts,
                       AnchorChunks(st, rows[i], i, ChunkCount(rows[i].kind, split_numbered),
                                    1, toc_starts))

\* build_pages(content_table, cols, toc_starts=..., split_numbered=...)
BuildPagesWithIds(rows, split_numbered, toc_starts) ==
  AnchorPagesFrom(rows, 1, split_numbered, toc_starts,
                  [pages |-> <<>>, ids |-> [id \in {} |-> 0], marks |-> {}])

IdRows ==
  {IdRow("blank", 1, 0)}
  \cup {IdRow("plain", id, 0) : id \in {NoId, 1, 2}}
  \cup {IdRow("numbered", id, 0) : id \in {NoId, 1, 2}}
  \cup {IdRow("numbered", 1, 2)}

InitAnchors ==
  /\ \E rows \in UNION {[1..n -> IdRows] : n \in 0..MaxRows},
        split_numbered \in BOOLEAN, toc_starts \in {{}, {1}} :
       call = [arg |-> rows, split |-> split_numbered, toc |-> toc_starts,
               res |-> <<>>, done |-> FALSE]
  /\ queue = NoQueue
  /\ files = {}
  /\ clock = 0
  /\ last = NoCall
  /\ disk = [input |-> NoFile, tmp |-> NoFile]
  /\ pc = "idle"
  /\ job = NoJob
  /\ exc = FALSE
  /\ tmpMade = FALSE
  /\ seen = NoFile
  /\ bok = NoBok
  /\ out = NoFile

BuildPagesWithIdsCall ==
  /\ ~call.done
  /\ call' = [call EXCEPT !.res = BuildPagesWithIds(call.arg, call.split, call.toc),
                          !.done = TRUE]
  /\ UNCHANGED <<disk, clock, last, pc, job, exc, tmpMade, seen, queue, files, bok, out>>

NextAnchors == BuildPagesWithIdsCall

SpecAnchors == InitAnchors /\ [][NextAnchors]_vars

\* the pages emitted for identifier id
PagesOfId(id) ==
  {k \in 1..Len(call.res.pages) : call.arg[call.res.pages[k].row].id = id}

\* the pages emitted for id whose body has the marker of id
MarkedPagesOfId(id) ==
  {k \in PagesOfId(id) : [page |-> call.res.pages[k].page_number, id |-> id] \in call.res.marks}

\* C26: the page number recorded for an identifier is that of the first
\* page emitted for it, across chunks and across rows, except that for a
\* registered TOC anchor it is the page of the chunk that got the marker;
\* so every TOC entry with anchor toc_<id> targets a page with that marker
C26_FirstAnchorWins ==
  call.done =>
    \A id \in DOMAIN call.res.ids :
      IF id \in call.toc
      THEN /\ MarkedPagesOfId(id) # {}
           /\ call.res.ids[id] = call.res.pages[MinOf(MarkedPagesOfId(id))].page_number
      ELSE /\ PagesOfId(id) # {}
           /\ call.res.ids[id] = call.res.pages[MinOf(PagesOfId(id))].page_number

----------------------------------------------------------------------------
(* converter_callback among the other handlers.  The handlers are          *)
(* coroutines of one event loop: a handler runs without interruption up to *)
(* its next await.  call.running holds the conversions between the pop of  *)
(* get_request_state and the end of converter_callback.                    *)

PopRequestStateGet(q, fs, request_id, now) ==
  [queue |-> CleanupExpiredRequests(q, fs, now, QUEUE_TTL_SECONDS).queue,
   files |-> CleanupExpiredRequests(q, fs, now, QUEUE_TTL_SECONDS).files,
   found |-> /\ request_id \in Kept(q, now, QUEUE_TTL_SECONDS)
             /\ q[request_id].input_file_path \in fs]

\* get_request_state(event, request_id, pop=True): the cleanup, then
\* queue.pop(request_id, None); found when a state was popped and its file
\* exists
PopRequestState(q, fs, request_id, now) ==
  [queue |-> [id \in Kept(q, now, QUEUE_TTL_SECONDS) \ {request_id} |-> q[id]],
   files |-> CleanupExpiredRequests(q, fs, now, QUEUE_TTL_SECONDS).files,
   found |-> /\ request_id \in Kept(q, now, QUEUE_TTL_SECONDS)
             /\ q[request_id].input_file_path \in fs]

\* a conversion in progress
Running(request_id, state) == [id |-> request_id, state |-> state]

Without(s, i) == [k \in 1..(Len(s) - 1) |-> IF k < i THEN s[k] ELSE s[k + 1]]

\* what the handlers leave alone while conversions run; call.op names the
\* handler that ran last
ConvertFrame == UNCHANGED <<disk, last, pc, job, exc, tmpMade, seen, bok, out>>

\* file_converter from the return of download_media to its end; the
\* extension of the file plays no part in the queue
FileConverterStep ==
  /\ \E path \in Paths \ files, ext \in {"epub"} :
       \E c \in {CleanupExpiredRequests(queue, files \cup {path}, clock, QUEUE_TTL_SECONDS)} :
         \E random_id \in RequestIds \ DOMAIN c.queue :
           /\ queue' = (random_id :> ConversionRequestState(path, clock, ext)) @@ c.queue
           /\ files' = c.files
  /\ call' = [call EXCEPT !.op = "file"]
  /\ UNCHANGED clock
  /\ ConvertFrame

\* one round of cleanup_queue_loop
CleanupQueueLoopStep ==
  /\ \E c \in {CleanupExpiredRequests(queue, files, clock, QUEUE_TTL_SECONDS)} :
       /\ queue' = c.queue
       /\ files' = c.files
  /\ call' = [call EXCEPT !.op = "cleanup"]
  /\ UNCHANGED clock
  /\ ConvertFrame

\* view_switch_callback, for any request id of a button
ViewSwitchCallbackStep ==
  /\ \E request_id \in RequestIds :
       \E g \in {GetRequestState(queue, files, request_id, clock)} :
         /\ queue' = g.queue
         /\ files' = g.files
  /\ call' = [call EXCEPT !.op = "view"]
  /\ UNCHANGED clock
  /\ ConvertFrame

\* cancel_conversion_callback, for any request id of a button: a request
\* that is not queued is answered as expired
CancelConversionCallbackStep ==
  /\ \E request_id \in RequestIds :
       IF request_id \in DOMAIN queue
       THEN /\ queue' = [id \in DOMAIN queue \ {request_id} |-> queue[id]]
            /\ files' = files \ {queue[request_id].input_file_path}
       ELSE UNCHANGED <<queue, files>>
  /\ call' = [call EXCEPT !.op = "cancel"]
  /\ UNCHANGED clock
  /\ ConvertFrame

\* monotonic() advances
MonotonicStep ==
  /\ clock < MaxNow
  /\ clock' = clock + 1
  /\ UNCHANGED <<queue, files, call>>
  /\ ConvertFrame

\* converter_callback up to "await event.edit(...)": the request is popped
\* and, when found, its conversion starts
ConverterCallback ==
  /\ Len(call.running) < MaxRequests
  /\ \E request_id \in RequestIds :
       \E g \in {PopRequestState(queue, files, request_id, clock)} :
         /\ queue' = g.queue
         /\ files' = g.files
         /\ call' = [running |-> IF g.found
                                 THEN Append(call.running, Running(request_id, queue[request_id]))
                                 ELSE call.running,
                     op |-> "convert"]
  /\ UNCHANGED clock
  /\ ConvertFrame

\* converter_callback from the return of convert_ebook to its end, with or
\* without an output file: input_file.unlink(missing_ok=True)
ConverterReturn ==
  /\ \E i \in 1..Len(call.running) :
       /\ files' = files \ {call.running[i].state.input_file_path}
       /\ call' = [running |-> Without(call.running, i), op |-> "return"]
  /\ UNCHANGED <<queue, clock>>
  /\ ConvertFrame

\* an awaited call of converter_callback raises (event.edit, convert_ebook,
\* reply.edit, send_file): the exception leaves the handler
ConverterRaise ==
  /\ \E i \in 1..Len(call.running) :
       call' = [running |-> Without(call.running, i), op |-> "raise"]
  /\ UNCHANGED <<queue, files, clock>>
  /\ ConvertFrame

InitConvert ==
  /\ queue = NoQueue
  /\ files = {}
  /\ clock = 0
  /\ last = NoCall
  /\ disk = [input |-> NoFile, tmp |-> NoFile]
  /\ pc = "idle"
  /\ job = NoJob
  /\ exc = FALSE
  /\ tmpMade = FALSE
  /\ seen = NoFile
  /\ bok = NoBok
  /\ out = NoFile
  /\ call = [running |-> <<>>, op |-> "none"]

NextConvert ==
  \/ FileConverterStep
  \/ CleanupQueueLoopStep
  \/ ViewSwitchCallbackStep
  \/ CancelConversionCallbackStep
  \/ MonotonicStep
  \/ ConverterCallback
  \/ ConverterReturn
  \/ ConverterRaise

SpecConvert == InitConvert /\ [][NextConvert]_vars

\* the event loop runs every task that is ready: the cleanup loop wakes up
\* again, time passes, and a conversion ends (every subprocess and the bok
\* thread are under a timeout)
SpecConvertFair ==
  /\ SpecConvert
  /\ WF_vars(CleanupQueueLoopStep)
  /\ WF_vars(MonotonicStep)
  /\ WF_vars(ConverterReturn \/ ConverterRaise)

RunningPaths == {call.running[i].state.input_file_path : i \in 1..Len(call.running)}

QueuedPaths == {queue[id].input_file_path : id \in DOMAIN queue}

C30_InputFilesDeleted == files \subseteq (QueuedPaths \cup RunningPaths)

====
